---- MODULE Spec2Model ----
(***************************************************************************)
(* A model of druid's widget-pod propagation (druid/src/core.rs), of the   *)
(* container widgets that drive it (druid/src/widget/align.rs,             *)
(* druid/src/widget/either.rs), of the lenses over the application data    *)
(* (druid/src/lens.rs) and of the Parse widget (druid/src/widget/parse.rs).*)
(*                                                                         *)
(* The widget tree is fixed:                                               *)
(*                                                                         *)
(*        pod 1  (a container forwarding to every child in order, or an    *)
(*        /    \  Either over pod 2 and pod 3)                             *)
(*     pod 2    pod 3 (leaf)                                               *)
(*    (Align)                                                              *)
(*       |                                                                 *)
(*     pod 4 (leaf)                                                        *)
(*                                                                         *)
(* The host dispatches into `root`, which is pod 1 (the whole tree) or     *)
(* pod 2 (the two-level tree Align -> leaf).  Leaf widgets are stubs whose *)
(* handlers call the EventCtx setters an input of the dispatch names.      *)
(***************************************************************************)
EXTENDS Integers, Sequences, FiniteSets, TLC

VARIABLES
    root,       \* the pod the host dispatches into
    state,      \* state[p]: WidgetPod.state (BaseState) of pod p
    old_data,   \* old_data[p]: WidgetPod.old_data, an Option (<<>> or <<d>>)
    env,        \* env[p]: WidgetPod.env, an Option (<<>> or <<e>>)
    hist,       \* hist[p]: the arguments of the last call of pod p's update
                \* (.called) and of its inner widget's update (.inner), and the
                \* rectangle last given to its set_layout_rect (.rect), Options
    op,         \* the operation the host last ran, with its inputs and root context
    pre,        \* the pods' state, old_data, env and hist when that operation began
    log,        \* what that operation did, call by call
    app,        \* the application data a lens is used on: the lens parts, the
                \* data, the Arc allocations and the last lens operation
    widget      \* the fields of the root pod's own widget when it is an Either
                \* (closure, current) or a Parse (state)

vars == <<root, state, old_data, env, hist, op, pre, log, app, widget>>

----------------------------------------------------------------------------
(* Bounds *)

\* data values are 0..MaxData
MaxData == 2
\* env values are 0..MaxEnv
MaxEnv == 1

----------------------------------------------------------------------------
(* The tree *)

Pods == 1 .. 4

\* owner of the root EventCtx's base state (a fresh BaseState of the host)
Host == 0

Children(p) ==
    CASE p = 1 -> <<2, 3>>
      [] p = 2 -> <<4>>
      [] OTHER -> <<>>

Parent(p) ==
    CASE p = 2 -> 1
      [] p = 3 -> 1
      [] p = 4 -> 2
      [] OTHER -> Host

Leaves == {p \in Pods : Children(p) = <<>>}

RECURSIVE Ancestors(_)
Ancestors(p) ==
    IF Parent(p) = Host THEN {} ELSE {Parent(p)} \cup Ancestors(Parent(p))

Descendants(p) == {q \in Pods : p \in Ancestors(q)}

\* the pods of the tree the host dispatches into
Tree(r) == {r} \cup Descendants(r)

----------------------------------------------------------------------------
(* Geometry: kurbo points and rectangles; a coordinate is a multiple of    *)
(* 1/2, held as the number of halves it contains                           *)

Pt(x, y) == [x |-> x, y |-> y]

Rect(x0, y0, x1, y1) == [x0 |-> x0, y0 |-> y0, x1 |-> x1, y1 |-> y1]

ZeroRect == Rect(0, 0, 0, 0)

\* Rect::origin().to_vec2()
origin(rect) == Pt(rect.x0, rect.y0)

\* mouse_event.pos -= rect.origin().to_vec2()
PosSub(pos, vec) == Pt(pos.x - vec.x, pos.y - vec.y)

Min(a, b) == IF a < b THEN a ELSE b
Max(a, b) == IF a > b THEN a ELSE b

\* Shape::winding of a Rect: non-zero exactly for the points of the
\* half-open rectangle
winding(rect, pt) ==
    LET xmin == Min(rect.x0, rect.x1)
        xmax == Max(rect.x0, rect.x1)
        ymin == Min(rect.y0, rect.y1)
        ymax == Max(rect.y0, rect.y1)
    IN  IF pt.x >= xmin /\ pt.x < xmax /\ pt.y >= ymin /\ pt.y < ymax
        THEN (IF (rect.x1 > rect.x0) # (rect.y1 > rect.y0) THEN -1 ELSE 1)
        ELSE 0

----------------------------------------------------------------------------
(* BaseState *)

\* #[derive(Default)] BaseState
DefaultBaseState ==
    [ layout_rect   |-> ZeroRect,
      needs_inval   |-> FALSE,
      is_hot        |-> FALSE,
      is_active     |-> FALSE,
      has_active    |-> FALSE,
      request_anim  |-> FALSE,
      request_timer |-> FALSE,
      has_focus     |-> FALSE,
      request_focus |-> FALSE ]

\* WidgetPod::new
NewPod == [state |-> DefaultBaseState, old_data |-> <<>>, env |-> <<>>]

\* WidgetPod::set_layout_rect
set_layout_rect(bs, layout_rect) == [bs EXCEPT !.layout_rect = layout_rect]

\* The layouts the containers have given the pods, each rectangle in the
\* coordinate space of the pod's parent.  Children lie inside their parents.
Layouts ==
    { [p \in Pods |->
         CASE p = 1 -> Rect(0, 0, 4, 2)
           [] p = 2 -> Rect(1, 0, 3, 2)
           [] p = 3 -> Rect(3, 0, 4, 2)
           [] p = 4 -> Rect(1, 1, 2, 2)],
      [p \in Pods |->
         CASE p = 1 -> Rect(1, 0, 4, 2)
           [] p = 2 -> Rect(0, 0, 2, 2)
           [] p = 3 -> Rect(2, 0, 3, 1)
           [] p = 4 -> Rect(0, 1, 1, 2)] }

\* pointer positions, in the coordinate space of the window
Points == { Pt(0, 0), Pt(1, 0), Pt(1, 1), Pt(2, 1), Pt(3, 0), Pt(5, 1) }

----------------------------------------------------------------------------
(* Events *)

MouseKinds == {"MouseDown", "MouseUp", "MouseMoved"}

KeyKinds == {"KeyDown", "KeyUp", "Paste"}

EventKinds ==
    {"LifeCycle", "Size", "Wheel", "Zoom", "HotChanged", "FocusChanged",
     "AnimFrame", "Timer", "Command"} \cup MouseKinds \cup KeyKinds

NoPos == Pt(0, 0)

\* an event: its kind, the pointer position of a mouse event and the
\* payload of HotChanged / FocusChanged
Ev(kind, pos, val) == [kind |-> kind, pos |-> pos, val |-> val]

HotChanged(is_hot) == Ev("HotChanged", NoPos, is_hot)

FocusChanged(is_focused) == Ev("FocusChanged", NoPos, is_focused)

\* Event::recurse: whether the event is walked down the tree by the pods
recurse(event) == event.kind # "HotChanged"

----------------------------------------------------------------------------
(* EventCtx and the stub widgets' handlers *)

\* The fields of an EventCtx the propagation reads and writes.  base_state
\* is a reference: `owner` names the pod (or the host) whose BaseState it is.
EventCtx(owner, had_active, is_handled, is_root) ==
    [ owner |-> owner, had_active |-> had_active,
      is_handled |-> is_handled, is_root |-> is_root ]

\* What a stub widget's handler calls on its EventCtx during one call:
\* set_active(true) / set_active(false) / neither, set_handled,
\* request_focus, invalidate, request_anim_frame, request_timer; and the
\* cursors it gives to set_cursor and the commands it gives to
\* submit_command, in the order of the calls (none here).
Reaction(active, handled, focus, inval, anim, timer) ==
    [ active |-> active, handled |-> handled, focus |-> focus,
      inval |-> inval, anim |-> anim, timer |-> timer,
      cursors |-> <<>>, commands |-> <<>> ]

\* a handler that also calls set_cursor and submit_command
Calling(react, cursors, commands) ==
    [react EXCEPT !.cursors = cursors, !.commands = commands]

\* the arguments of one submit_command call: the command and the target
\* window (an Option)
Submit(command, window_id) == [command |-> command, window_id |-> window_id]

NoReaction == Reaction("keep", FALSE, FALSE, FALSE, FALSE, FALSE)

\* EventCtx::set_active
set_active(bs, active) == [bs EXCEPT !.is_active = active]

\* EventCtx::request_focus
request_focus(bs) == [bs EXCEPT !.request_focus = TRUE]

\* EventCtx::invalidate
invalidate(bs) == [bs EXCEPT !.needs_inval = TRUE]

\* EventCtx::request_anim_frame
request_anim_frame(bs) == [bs EXCEPT !.request_anim = TRUE]

\* EventCtx::request_timer
request_timer(bs) == [bs EXCEPT !.request_timer = TRUE]

\* EventCtx::set_handled
set_handled(ctx) == [ctx EXCEPT !.is_handled = TRUE]

\* (mutant) set_cursor leaves a cursor that is already set
set_cursor_KeepsFirst(slot, cursor) == IF slot = <<>> THEN <<cursor>> ELSE slot

\* EventCtx::set_cursor, on the cursor slot (an Option) the contexts share
set_cursor(slot, cursor) == <<cursor>>

\* (mutant) the command is put at the front of the queue
submit_command_Front(queue, ctx_window_id, command, window_id) ==
    <<[window_id |-> IF window_id # <<>> THEN window_id[1] ELSE ctx_window_id,
       command |-> command]>> \o queue

\* EventCtx::submit_command, on the command queue the contexts share
submit_command(queue, ctx_window_id, command, window_id) ==
    Append(queue,
           [window_id |-> IF window_id # <<>> THEN window_id[1]
                          ELSE ctx_window_id,
            command |-> command])

\* the cursor slot after the handler's set_cursor calls
RECURSIVE SetCursors(_, _)
SetCursors(slot, cursors) ==
    IF cursors = <<>> THEN slot
    ELSE SetCursors(set_cursor(slot, Head(cursors)), Tail(cursors))

\* the command queue after the handler's submit_command calls
RECURSIVE SubmitCommands(_, _, _)
SubmitCommands(queue, ctx_window_id, commands) ==
    IF commands = <<>> THEN queue
    ELSE SubmitCommands(
             submit_command(queue, ctx_window_id, Head(commands).command,
                            Head(commands).window_id),
             ctx_window_id, Tail(commands))

\* the base state after the handler's calls
ReactState(bs, react) ==
    LET b1 == IF react.active = "on" THEN set_active(bs, TRUE)
              ELSE IF react.active = "off" THEN set_active(bs, FALSE)
              ELSE bs
        b2 == IF react.focus THEN request_focus(b1) ELSE b1
        b3 == IF react.inval THEN invalidate(b2) ELSE b2
        b4 == IF react.anim THEN request_anim_frame(b3) ELSE b3
    IN  IF react.timer THEN request_timer(b4) ELSE b4

\* the context after the handler's calls
ReactCtx(ctx, react) == IF react.handled THEN set_handled(ctx) ELSE ctx

----------------------------------------------------------------------------
(* Either: the widget of pod 1 when widget.kind is "either" *)

\* the root pod's own widget has no fields the model follows
NoWidget == [kind |-> "plain", closure |-> "", current |-> FALSE, state |-> <<>>]

\* Either::new(closure, true_branch, false_branch): current starts false
EitherNew(closure_name) == [NoWidget EXCEPT !.kind = "either", !.closure = closure_name]

\* The closures an Either is built with, on the data and the env:
\*   "gt"      |data, env| data > env
\*   "always"  |_, _| true
closure(name, data, e) ==
    CASE name = "gt" -> data > e
      [] name = "always" -> TRUE

\* pod p holds the Either
IsEither(p) == widget.kind = "either" /\ p = 1

\* its two pods
true_branch(p) == Children(p)[1]

false_branch(p) == Children(p)[2]

\* (mutant) the true branch whatever current is
Branch_AlwaysTrue(p, current) == true_branch(p)

\* if self.current { self.true_branch } else { self.false_branch }
Branch(p, current) == IF current THEN true_branch(p) ELSE false_branch(p)

----------------------------------------------------------------------------
(* The log of one operation *)

\* One record per step of a propagation:
\*   "skip"    WidgetPod::event returned at its first check
\*   "enter"   WidgetPod::event passed the check (bs: the pod on entry)
\*   "deliver" the inner widget's event was called (bs: the pod at the call,
\*             ctx: the context handed to the widget, react: what it called)
\*   "exit"    WidgetPod::event returned after the merge (bs: the pod,
\*             ctx: the caller's context after the merge)
LogRec(t, pod, ev, ctx, bs, react, rec) ==
    [ t |-> t, pod |-> pod, ev |-> ev, ctx |-> ctx, bs |-> bs,
      react |-> react, recurse |-> rec ]

----------------------------------------------------------------------------
(* WidgetPod::event *)

\* (mutant) the first check ignores is_handled
EventReturnsEarly_IgnoresHandled(ctx, event) == ~recurse(event)

\* the first check of WidgetPod::event: return without doing anything
EventReturnsEarly(ctx, event) == ctx.is_handled \/ ~recurse(event)

\* the result of the match on the event: the pod's base state after the
\* arm, whether to recurse, the hot change (an Option) and the child event
Arm(bs, rec, hot_changed, child_event) ==
    [ bs |-> bs, recurse |-> rec, hot_changed |-> hot_changed,
      child_event |-> child_event ]

\* (mutant) the position is forwarded as it came
Translated_NotTranslated(event, rect) == event

\* the mouse event with its position in the pod's local coordinates
Translated(event, rect) ==
    [event EXCEPT !.pos = PosSub(event.pos, origin(rect))]

\* recurse of the MouseDown arm
RecurseMouseDown(had_active, ctx_had_active, now_hot) ==
    had_active \/ (~ctx_had_active /\ now_hot)

\* (mutant) a pod turned hot by a MouseDown reports no hot change
MouseDownArm_NoHotChanged(bs, ctx, had_active, event) ==
    LET rect == bs.layout_rect
        now_hot == winding(rect, event.pos) # 0
    IN  Arm(IF now_hot THEN [bs EXCEPT !.is_hot = TRUE] ELSE bs,
            RecurseMouseDown(had_active, ctx.had_active, now_hot),
            <<>>,
            Translated(event, rect))

MouseDownArm(bs, ctx, had_active, event) ==
    LET rect == bs.layout_rect
        had_hot == bs.is_hot
        now_hot == winding(rect, event.pos) # 0
        newly == (~had_hot) /\ now_hot
    IN  Arm(IF newly THEN [bs EXCEPT !.is_hot = TRUE] ELSE bs,
            RecurseMouseDown(had_active, ctx.had_active, now_hot),
            IF newly THEN <<TRUE>> ELSE <<>>,
            Translated(event, rect))

\* (mutant) a MouseUp in the rectangle is forwarded whatever the calling
\* context reports
MouseUpArm_IgnoresCtx(bs, ctx, had_active, event) ==
    LET rect == bs.layout_rect
    IN  Arm(bs,
            had_active \/ winding(rect, event.pos) # 0,
            <<>>,
            Translated(event, rect))

MouseUpArm(bs, ctx, had_active, event) ==
    LET rect == bs.layout_rect
    IN  Arm(bs,
            had_active \/ (~ctx.had_active /\ winding(rect, event.pos) # 0),
            <<>>,
            Translated(event, rect))

\* (mutant) the pod turns hot when the pointer enters its rectangle and is
\* left as it was otherwise
MouseMovedArm_NeverCools(bs, ctx, had_active, event) ==
    LET rect == bs.layout_rect
        had_hot == bs.is_hot
        is_hot == had_hot \/ winding(rect, event.pos) # 0
    IN  Arm([bs EXCEPT !.is_hot = is_hot],
            had_active \/ had_hot \/ is_hot,
            IF had_hot # is_hot THEN <<is_hot>> ELSE <<>>,
            Translated(event, rect))

MouseMovedArm(bs, ctx, had_active, event) ==
    LET rect == bs.layout_rect
        had_hot == bs.is_hot
        is_hot == winding(rect, event.pos) # 0
    IN  Arm([bs EXCEPT !.is_hot = is_hot],
            had_active \/ had_hot \/ is_hot,
            IF had_hot # is_hot THEN <<is_hot>> ELSE <<>>,
            Translated(event, rect))

\* (mutant) the event is forwarded with the payload it came with
FocusChangedArm_ForwardsPayload(bs, ctx, had_active, event) ==
    Arm([bs EXCEPT !.request_focus = FALSE, !.has_focus = bs.request_focus],
        bs.request_focus \/ bs.has_focus,
        <<>>,
        event)

FocusChangedArm(bs, ctx, had_active, event) ==
    LET had_focus == bs.has_focus
        focus == bs.request_focus
    IN  Arm([bs EXCEPT !.request_focus = FALSE, !.has_focus = focus],
            focus \/ had_focus,
            <<>>,
            FocusChanged(focus))

\* (mutant) the request flag is left set when the frame is forwarded
AnimFrameArm_KeepsFlag(bs, ctx, had_active, event) ==
    Arm(bs, bs.request_anim, <<>>, event)

AnimFrameArm(bs, ctx, had_active, event) ==
    Arm([bs EXCEPT !.request_anim = FALSE], bs.request_anim, <<>>, event)

\* (mutant) a Size event is forwarded by every pod
SizeArm_Always(bs, ctx, had_active, event) == Arm(bs, TRUE, <<>>, event)

\* Event::Size: recurse = ctx.is_root
SizeArm(bs, ctx, had_active, event) == Arm(bs, ctx.is_root, <<>>, event)

\* (mutant) a keyboard event is forwarded whether or not the pod has focus
KeyArm_Always(bs, ctx, had_active, event) == Arm(bs, TRUE, <<>>, event)

\* Event::KeyDown, KeyUp, Paste: recurse = has_focus
KeyArm(bs, ctx, had_active, event) == Arm(bs, bs.has_focus, <<>>, event)

\* (mutant) the request flag is cleared when the timer event is forwarded
TimerArm_Clears(bs, ctx, had_active, event) ==
    Arm([bs EXCEPT !.request_timer = FALSE], bs.request_timer, <<>>, event)

\* Event::Timer: recurse = request_timer; the flag is left as it is
TimerArm(bs, ctx, had_active, event) == Arm(bs, bs.request_timer, <<>>, event)

\* match event { ... }
Match(bs, ctx, had_active, event) ==
    CASE event.kind = "LifeCycle" -> Arm(bs, TRUE, <<>>, event)
      [] event.kind = "Size" -> SizeArm(bs, ctx, had_active, event)
      [] event.kind = "MouseDown" -> MouseDownArm(bs, ctx, had_active, event)
      [] event.kind = "MouseUp" -> MouseUpArm(bs, ctx, had_active, event)
      [] event.kind = "MouseMoved" -> MouseMovedArm(bs, ctx, had_active, event)
      [] event.kind \in KeyKinds -> KeyArm(bs, ctx, had_active, event)
      [] event.kind \in {"Wheel", "Zoom"} ->
            Arm(bs, had_active \/ bs.is_hot, <<>>, event)
      [] event.kind = "HotChanged" -> Arm(bs, TRUE, <<>>, event)
      [] event.kind = "FocusChanged" ->
            FocusChangedArm(bs, ctx, had_active, event)
      [] event.kind = "AnimFrame" -> AnimFrameArm(bs, ctx, had_active, event)
      [] event.kind = "Timer" -> TimerArm(bs, ctx, had_active, event)
      [] event.kind = "Command" -> Arm(bs, TRUE, <<>>, event)

\* (mutant) needs_inval is left as the earlier dispatches set it
ClearInval_Keeps(bs) == bs

\* child_ctx.base_state.needs_inval = false, after the match and before the
\* inner widget is called
ClearInval(bs) == [bs EXCEPT !.needs_inval = FALSE]

\* (mutant) the caller's flags are overwritten with the child's
MergeUp_Overwrites(parent, child) ==
    [parent EXCEPT
        !.needs_inval   = child.needs_inval,
        !.request_anim  = child.request_anim,
        !.request_timer = child.request_timer,
        !.is_hot        = child.is_hot,
        !.has_active    = child.has_active,
        !.request_focus = child.request_focus]

\* the merge of the child's flags into the caller's base state
MergeUp(parent, child) ==
    [parent EXCEPT
        !.needs_inval   = @ \/ child.needs_inval,
        !.request_anim  = @ \/ child.request_anim,
        !.request_timer = @ \/ child.request_timer,
        !.is_hot        = @ \/ child.is_hot,
        !.has_active    = @ \/ child.has_active,
        !.request_focus = @ \/ child.request_focus]

\* ctx.is_handled |= child_ctx.is_handled
MergeHandled(ctx, child_ctx) ==
    [ctx EXCEPT !.is_handled = @ \/ child_ctx.is_handled]

\* has_active of a pod that recursed, after its inner widget returned
HasActiveAfter(bs) == bs.has_active \/ bs.is_active

\* A propagation threads a world W through its calls: W.st[p] is the base
\* state of pod p (W.st[Host] the root context's), W.cursor and
\* W.command_queue the cursor slot and the command queue every context of
\* the propagation points to, W.window_id their window id, W.log the log so
\* far and W.reacts what the stub widgets may do when called with a
\* synthesized HotChanged (.hot) and with any other event (.main; .row for
\* the container of several children, before it forwards the event).  A stub widget's
\* handler is free to pick any of these, so each call yields the set of its
\* possible outcomes: the world and the caller's context after it.
Ret(W, ctx) == [W |-> W, ctx |-> ctx]

Logged(W, rec) == [W EXCEPT !.log = Append(@, rec)]

RECURSIVE PodEvent(_, _, _, _)
RECURSIVE WidgetEvent(_, _, _, _)
RECURSIVE ForwardFrom(_, _, _, _, _)

\* the world after the handler of pod p's widget made the calls of react
Reacted(p, ctx, event, W, react) ==
    [Logged(W, LogRec("deliver", p, event, ctx, W.st[p], react, TRUE))
        EXCEPT !.st[p] = ReactState(@, react),
               !.cursor = SetCursors(@, react.cursors),
               !.command_queue = SubmitCommands(@, W.window_id, react.commands)]

\* a stub leaf widget's event: one outcome per handler
LeafEvent(p, ctx, event, W) ==
    { Ret(Reacted(p, ctx, event, W, react), ReactCtx(ctx, react)) :
        react \in IF event.kind = "HotChanged"
                  THEN W.reacts.hot ELSE W.reacts.main }

\* Align::event
AlignEvent(p, ctx, event, W) ==
    PodEvent(Children(p)[1], ctx, event,
             Logged(W, LogRec("deliver", p, event, ctx, W.st[p], NoReaction, TRUE)))

\* Either::event
EitherEvent(p, ctx, event, W) ==
    PodEvent(Branch(p, widget.current), ctx, event,
             Logged(W, LogRec("deliver", p, event, ctx, W.st[p], NoReaction, TRUE)))

\* a container of several children: each child pod's event, in order
ForwardFrom(cs, i, ctx, event, W) ==
    IF i > Len(cs) THEN {Ret(W, ctx)}
    ELSE UNION { ForwardFrom(cs, i + 1, r.ctx, event, r.W) :
                    r \in PodEvent(cs[i], ctx, event, W) }

RowEvent(p, ctx, event, W) ==
    UNION { ForwardFrom(Children(p), 1, ReactCtx(ctx, react), event,
                        Reacted(p, ctx, event, W, react)) :
               react \in W.reacts.row }

\* self.inner.event(&mut child_ctx, event, data, env)
WidgetEvent(p, ctx, event, W) ==
    CASE IsEither(p) -> EitherEvent(p, ctx, event, W)
      [] p \in Leaves -> LeafEvent(p, ctx, event, W)
      [] Len(Children(p)) = 1 -> AlignEvent(p, ctx, event, W)
      [] OTHER -> RowEvent(p, ctx, event, W)

\* if recurse { has_active = false; inner.event(..); has_active |= is_active }
Recursed(p, r1, child_event) ==
    { Ret([r.W EXCEPT !.st[p].has_active = HasActiveAfter(r.W.st[p])], r.ctx) :
        r \in WidgetEvent(p, r1.ctx, child_event,
                          [r1.W EXCEPT !.st[p].has_active = FALSE]) }

\* the "exit" record: also the context the pod handed to its widget as it
\* is at the merge (child_ctx), and the caller's base state before the merge
\* (caller) and after it (merged)
ExitRec(p, event, ctx3, bs, rec, child_ctx, caller, merged) ==
    [ t |-> "exit", pod |-> p, ev |-> event, ctx |-> ctx3, bs |-> bs,
      react |-> NoReaction, recurse |-> rec, child_ctx |-> child_ctx,
      caller |-> caller, merged |-> merged ]

\* the merge into the caller's context, and the return
Merged(p, ctx, event, r2, rec) ==
    LET W3 == [r2.W EXCEPT !.st[ctx.owner] = MergeUp(@, r2.W.st[p])]
        ctx3 == MergeHandled(ctx, r2.ctx)
    IN  Ret(Logged(W3, ExitRec(p, event, ctx3, W3.st[p], rec, r2.ctx,
                               r2.W.st[ctx.owner], W3.st[ctx.owner])),
            ctx3)

\* WidgetPod::event
PodEvent(p, ctx, event, W) ==
    IF EventReturnsEarly(ctx, event)
    THEN {Ret(Logged(W, LogRec("skip", p, event, ctx, W.st[p], NoReaction, FALSE)),
              ctx)}
    ELSE
      LET had_active == W.st[p].has_active
          child_ctx == EventCtx(p, had_active, FALSE, FALSE)
          m == Match(W.st[p], ctx, had_active, event)
          W1 == [Logged(W, LogRec("enter", p, event, ctx, W.st[p], NoReaction,
                                  m.recurse))
                    EXCEPT !.st[p] = ClearInval(m.bs)]
          S1 == IF m.hot_changed # <<>>
                THEN WidgetEvent(p, child_ctx, HotChanged(m.hot_changed[1]), W1)
                ELSE {Ret(W1, child_ctx)}
          S2 == IF m.recurse
                THEN UNION { Recursed(p, r1, m.child_event) : r1 \in S1 }
                ELSE S1
      IN  { Merged(p, ctx, event, r2, m.recurse) : r2 \in S2 }

----------------------------------------------------------------------------
(* WidgetPod::update *)

\* Data::same of the data and of Env
same(a, b) == a = b

\* if let Some(ref old) = snapshot { old.same(new) } else { false }
SameAsSnapshot(snapshot, new) ==
    IF snapshot # <<>> THEN same(snapshot[1], new) ELSE FALSE

\* (mutant) the update is skipped when the data alone is unchanged
UpdateSkipped_IgnoresEnv(data_same, env_same) == data_same

\* if data_same && env_same { return; }
UpdateSkipped(data_same, env_same) == data_same /\ env_same

\* (mutant) the snapshot keeps the data of the first update
Snapshotted_KeepsFirst(old, new) == IF old # <<>> THEN old ELSE <<new>>

\* self.old_data = Some(data.clone()); self.env = Some(env.clone())
Snapshotted(old, new) == <<new>>

\* One record per call of an update propagation:
\*   "update" WidgetPod::update of pod was called with data and env
\*   "inner"  the inner widget's update was called with old (an Option),
\*            data and env
\*   "lensed" the widget inside a LensWrap was updated by it, with the
\*            projections of old (an Option) and of data, and env
\*   "invalidate" the widget of pod called UpdateCtx::invalidate
UpdRec(t, pod, old, data, e) ==
    [t |-> t, pod |-> pod, old |-> old, data |-> data, env |-> e]

\* An update propagation threads a world U: the pods' snapshots U.old_data
\* and U.env, the history U.hist, the log U.log, the lenses U.lens of the
\* pods whose widget is wrapped in a LensWrap (Options), the field
\* U.current of the Either and the flag U.needs_inval of the UpdateCtx.
Args(data, e) == [data |-> data, env |-> e]

RECURSIVE PodUpdate(_, _, _, _)
RECURSIVE UpdateFrom(_, _, _, _, _)
RECURSIVE LensWrapped(_, _, _, _, _, _)

\* a container of several children: each child pod's update, in order
UpdateFrom(cs, i, data, e, U) ==
    IF i > Len(cs) THEN U
    ELSE UpdateFrom(cs, i + 1, data, e, PodUpdate(cs[i], data, e, U))

\* Align::update
AlignUpdate(p, data, e, U) == PodUpdate(Children(p)[1], data, e, U)

\* the update context after Either::update computed `current`:
\* if current != self.current { self.current = current; ctx.invalidate(); }
EitherChanged(p, current, U) ==
    IF current # U.current
    THEN [U EXCEPT !.current = current, !.needs_inval = TRUE,
                   !.log = Append(@, UpdRec("invalidate", p, <<>>, 0, 0))]
    ELSE U

\* Either::update after that: the update of the branch self.current selects
EitherForwarded(p, data, e, U) == PodUpdate(Branch(p, U.current), data, e, U)

\* Either::update
EitherUpdate(p, data, e, U) ==
    EitherForwarded(p, data, e,
                    EitherChanged(p, closure(widget.closure, data, e), U))

\* the update of pod p's own widget: a stub leaf, Align, the container of
\* several children, or Either
OwnUpdate(p, data, e, U) ==
    CASE IsEither(p) -> EitherUpdate(p, data, e, U)
      [] p \in Leaves -> U
      [] Len(Children(p)) = 1 -> AlignUpdate(p, data, e, U)
      [] OTHER -> UpdateFrom(Children(p), 1, data, e, U)

\* self.inner.update(ctx, self.old_data.as_ref(), data, env); the inner
\* widget is the pod's own widget, or a LensWrap around it when U.lens[p]
\* holds a lens
WidgetUpdate(p, old, data, e, U) ==
    LET U1 == [U EXCEPT !.log = Append(@, UpdRec("inner", p, old, data, e)),
                        !.hist[p].inner = <<Args(data, e)>>]
    IN  IF U.lens[p] # <<>>
        THEN LensWrapped(p, U.lens[p][1], old, data, e, U1)
        ELSE OwnUpdate(p, data, e, U1)

\* WidgetPod::update
PodUpdate(p, data, e, U) ==
    LET data_same == SameAsSnapshot(U.old_data[p], data)
        env_same == SameAsSnapshot(U.env[p], e)
        U1 == [U EXCEPT !.log = Append(@, UpdRec("update", p, U.old_data[p], data, e)),
                        !.hist[p].called = <<Args(data, e)>>]
    IN  IF UpdateSkipped(data_same, env_same) THEN U1
        ELSE LET U2 == WidgetUpdate(p, U1.old_data[p], data, e, U1)
             IN  [U2 EXCEPT !.old_data[p] = Snapshotted(@, data),
                            !.env[p] = Snapshotted(@, e)]

----------------------------------------------------------------------------
(* Application data: values, Arc allocations *)

\* A value: an integer (n), a tuple or struct (items), a Vec (items), a Box
\* (one item) or an Arc handle (n: the allocation it points to).
Val(tag, n, items) == [tag |-> tag, n |-> n, items |-> items]

IntV(n) == Val("int", n, <<>>)

TupV(items) == Val("tup", 0, items)

VecV(items) == Val("vec", 0, items)

BoxV(v) == Val("box", 0, <<v>>)

ArcV(ptr) == Val("arc", ptr, <<>>)

\* an Arc allocation: its strong count and its contents
Cell(rc, val) == [rc |-> rc, val |-> val]

\* the application without data (no lens in use)
\* a lens operation: its kind, the shape and the lens it went through, its
\* argument (an Option), whether it returned and what it returned
LensOp(kind, shape, lens, arg, ok, ret) ==
    [ kind |-> kind, shape |-> shape, lens |-> lens, arg |-> arg, ok |-> ok,
      ret |-> ret ]

NoLensOp == LensOp("none", "", <<>>, <<>>, TRUE, <<>>)

\* the application without data (no lens in use)
NoApp ==
    [ parts |-> <<>>, data |-> IntV(0), old |-> <<>>, heap |-> <<>>,
      puts |-> {}, last |-> NoLensOp ]

RECURSIVE SumSeq(_)
SumSeq(s) == IF s = <<>> THEN 0 ELSE Head(s) + SumSeq(Tail(s))

\* the number of handles of allocation p that value v owns
RECURSIVE Handles(_, _)
Handles(v, p) ==
    IF v.tag = "arc" THEN (IF v.n = p THEN 1 ELSE 0)
    ELSE SumSeq([i \in 1 .. Len(v.items) |-> Handles(v.items[i], p)])

\* the allocations with the strong count of each changed by d times the
\* number of handles v owns of it (as a sequence)
Counted(v, heap, d) ==
    SubSeq([p \in 1 .. Len(heap) |->
               Cell(heap[p].rc + d * Handles(v, p), heap[p].val)],
           1, Len(heap))

\* Clone::clone of a value: every Arc handle in it is cloned
CloneVal(v, heap) == Counted(v, heap, 1)

\* Drop of a value: its handles are released, and the contents of the
\* allocations that lose their last handle are dropped in turn
RECURSIVE DropVal(_, _)
RECURSIVE DropAll(_, _)
DropVal(v, heap) ==
    LET h1 == Counted(v, heap, -1)
        dead == {p \in 1 .. Len(heap) : heap[p].rc > 0 /\ h1[p].rc = 0}
    IN  DropAll(dead, h1)

DropAll(dead, heap) ==
    IF dead = {} THEN heap
    ELSE LET p == CHOOSE q \in dead : \A r \in dead : q <= r
         IN  DropAll(dead \ {p},
                     DropVal(heap[p].val, [heap EXCEPT ![p].val = IntV(0)]))

\* the value with every Arc handle replaced by the contents it points to
RECURSIVE Deep(_, _)
Deep(v, heap) ==
    IF v.tag = "arc" THEN Val("arc", 0, <<Deep(heap[v.n].val, heap)>>)
    ELSE Val(v.tag, v.n, [i \in 1 .. Len(v.items) |-> Deep(v.items[i], heap)])

----------------------------------------------------------------------------
(* The host: one event at a time into the root pod *)

\* what the window's handler lends to the root context: its cursor slot
\* (an Option), its command queue and its window id
Window(cursor, command_queue, window_id) ==
    [cursor |-> cursor, command_queue |-> command_queue, window_id |-> window_id]

\* a window with no cursor set and no command queued
PlainWindow == Window(<<>>, <<>>, 1)

\* the operation record of an idle host
NoOp ==
    [ kind |-> "none", event |-> Ev("LifeCycle", NoPos, FALSE),
      ctx |-> EventCtx(Host, FALSE, FALSE, FALSE),
      host |-> DefaultBaseState, pod |-> Host, data |-> 0, env |-> 0,
      needs_inval |-> FALSE,
      given |-> PlainWindow, window |-> PlainWindow ]

Snapshot ==
    [state |-> state, old_data |-> old_data, env |-> env, hist |-> hist,
     app |-> app, widget |-> widget]

\* the context the host builds for the root pod: a fresh base state,
\* had_active from the root pod, not handled, is_root
RootCtx(root_state) == EventCtx(Host, root_state.has_active, FALSE, TRUE)

\* the host delivers `event` to the root pod with the cursor slot, the
\* command queue and the window id of `win`; the stub widgets pick their
\* handlers among `reacts`
DispatchIn(event, reacts, win) ==
    /\ op.kind = "none"
    /\ LET W0 == [ st  |-> [q \in {Host} \cup Pods |->
                              IF q = Host THEN DefaultBaseState ELSE state[q]],
                   cursor |-> win.cursor,
                   command_queue |-> win.command_queue,
                   window_id |-> win.window_id,
                   log |-> <<>>,
                   reacts |-> reacts ]
       IN  \E r \in PodEvent(root, RootCtx(state[root]), event, W0) :
              /\ state' = [p \in Pods |-> r.W.st[p]]
              /\ log' = r.W.log
              /\ op' = [NoOp EXCEPT !.kind = "event", !.event = event,
                                    !.ctx = r.ctx, !.host = r.W.st[Host],
                                    !.given = win,
                                    !.window = Window(r.W.cursor,
                                                      r.W.command_queue,
                                                      win.window_id)]
    /\ pre' = Snapshot
    /\ UNCHANGED <<root, old_data, env, hist, app, widget>>

Dispatch(event, reacts) == DispatchIn(event, reacts, PlainWindow)

\* the pods whose widget is wrapped in a LensWrap, with its lens: the root
\* pod, when the application looks at its data through a lens
Lensed ==
    [p \in Pods |-> IF p = root /\ app.parts # <<>> THEN <<app.parts[1]>>
                    ELSE <<>>]

\* the host updates the tree with the application's data and env
Update(data, e) ==
    /\ op.kind = "none"
    /\ LET U == PodUpdate(root, data, e,
                          [old_data |-> old_data, env |-> env, hist |-> hist,
                           log |-> <<>>, lens |-> Lensed,
                           current |-> widget.current, needs_inval |-> FALSE])
       IN  /\ old_data' = U.old_data
           /\ env' = U.env
           /\ hist' = U.hist
           /\ log' = U.log
           /\ widget' = [widget EXCEPT !.current = U.current]
           /\ op' = [NoOp EXCEPT !.kind = "update", !.pod = root,
                                 !.data = data, !.env = e,
                                 !.needs_inval = U.needs_inval]
    /\ pre' = Snapshot
    /\ UNCHANGED <<root, state, app>>

\* the operation has returned to the host's message loop: its contexts are
\* dropped
HostIdle ==
    /\ op.kind # "none"
    /\ op' = NoOp
    /\ log' = <<>>
    /\ pre' = Snapshot
    /\ UNCHANGED <<root, state, old_data, env, hist, app, widget>>

\* the tree after construction and a layout pass
InitTree(r) ==
    /\ root = r
    /\ \E layout \in Layouts :
          state = [p \in Pods |-> set_layout_rect(NewPod.state, layout[p])]
    /\ old_data = [p \in Pods |-> NewPod.old_data]
    /\ env = [p \in Pods |-> NewPod.env]
    /\ hist = [p \in Pods |-> [called |-> <<>>, inner |-> <<>>,
                               rect |-> <<state[p].layout_rect>>]]
    /\ op = NoOp
    /\ app = NoApp
    /\ widget = NoWidget
    /\ pre = Snapshot
    /\ log = <<>>

----------------------------------------------------------------------------
(* Mouse events through the whole tree *)

MouseEvents == {Ev(k, pos, FALSE) : k \in MouseKinds, pos \in Points}

\* handlers that set or clear the active state and mark the event handled
ActiveReactions ==
    {Reaction(a, h, FALSE, FALSE, FALSE, FALSE) :
        a \in {"keep", "on", "off"}, h \in BOOLEAN}

\* handlers of the synthesized HotChanged
HotReactions ==
    {Reaction(a, FALSE, FALSE, FALSE, FALSE, FALSE) : a \in {"keep", "on"}}

Reacts(main, hot) == [main |-> main, hot |-> hot, row |-> {NoReaction}]

MouseDispatch ==
    \E event \in MouseEvents : Dispatch(event, Reacts(ActiveReactions, HotReactions))

InitMouse == InitTree(1)

NextMouse == MouseDispatch \/ HostIdle

SpecMouse == InitMouse /\ [][NextMouse]_vars

----------------------------------------------------------------------------
(* Mouse events through the two-level tree: Align (pod 2) over a leaf *)

\* every kind of event; the payload matters to HotChanged and FocusChanged
OtherEvents ==
    {Ev(k, NoPos, FALSE) : k \in EventKinds \ MouseKinds}
        \cup {HotChanged(TRUE), FocusChanged(TRUE)}

\* handlers that make one call on their context, or set the active state
\* and mark the event handled
SingleReactions ==
    ActiveReactions
        \cup { Reaction("keep", FALSE, TRUE, FALSE, FALSE, FALSE),
               Reaction("keep", FALSE, FALSE, TRUE, FALSE, FALSE),
               Reaction("keep", FALSE, FALSE, FALSE, TRUE, FALSE),
               Reaction("keep", FALSE, FALSE, FALSE, FALSE, TRUE) }

AnyDispatch ==
    \E event \in MouseEvents \cup OtherEvents :
        Dispatch(event, Reacts(SingleReactions, HotReactions))

InitTwo == InitTree(2)

NextTwo == AnyDispatch \/ HostIdle

SpecTwo == InitTwo /\ [][NextTwo]_vars

----------------------------------------------------------------------------
(* Focus: requests, FocusChanged and keyboard events through the whole tree *)

FocusEvents ==
    {FocusChanged(TRUE), FocusChanged(FALSE), Ev("Command", NoPos, FALSE)}
        \cup {Ev(k, NoPos, FALSE) : k \in KeyKinds}
        \cup {Ev("MouseDown", pos, FALSE) : pos \in Points}

\* handlers that request focus and mark the event handled
FocusReactions ==
    {Reaction("keep", h, f, FALSE, FALSE, FALSE) : h \in BOOLEAN, f \in BOOLEAN}

FocusDispatch ==
    \E event \in FocusEvents :
        Dispatch(event, Reacts(FocusReactions, {NoReaction}))

InitFocus == InitTree(1)

NextFocus == FocusDispatch \/ HostIdle

SpecFocus == InitFocus /\ [][NextFocus]_vars

----------------------------------------------------------------------------
(* Updates of a tree rooted at any of the pods *)

DataValues == 0 .. MaxData

EnvValues == 0 .. MaxEnv

AnyUpdate == \E data \in DataValues, e \in EnvValues : Update(data, e)

InitUpdate == \E r \in Pods : InitTree(r)

NextUpdate == AnyUpdate \/ HostIdle

SpecUpdate == InitUpdate /\ [][NextUpdate]_vars

----------------------------------------------------------------------------
(* Reading the log of a completed dispatch *)

\* an event dispatch from the root has completed
Dispatched == op.kind = "event"

LogIdx == 1 .. Len(log)

\* the log positions of a kind of record of pod p
Recs(t, p) == {i \in LogIdx : log[i].t = t /\ log[i].pod = p}

\* pod p's event passed its first check
Entered(p) == Recs("enter", p) # {}

\* the calls of pod p's inner widget with an event of kind k
Deliveries(p, k) == {i \in Recs("deliver", p) : log[i].ev.kind = k}

\* the active state of pod p and of the pods beneath it
SomeActive(p) ==
    state[p].is_active \/ \E q \in Descendants(p) : state[q].is_active

----------------------------------------------------------------------------
(* Claims *)

\* C3: after every completed event dispatch from the root, every pod's
\* has_active is true if and only if the pod itself or one of its
\* descendants is active.
C3_HasActiveIffActive ==
    Dispatched => \A p \in Tree(root) : state[p].has_active <=> SomeActive(p)


\* C4: a widget that is active when an event dispatch begins receives every
\* MouseMoved and MouseUp dispatched from the root, wherever the pointer is.
C4_ActiveGetsMouse ==
    (Dispatched /\ op.event.kind \in {"MouseMoved", "MouseUp"}) =>
        \A p \in Tree(root) :
            pre.state[p].is_active => Deliveries(p, op.event.kind) # {}

\* C4, the dispatches in which no widget marks the event handled: the
\* active widget misses the event there too.
C4_ActiveGetsUnhandledMouse ==
    (/\ Dispatched
     /\ op.event.kind \in {"MouseMoved", "MouseUp"}
     /\ ~op.ctx.is_handled) =>
        \A p \in Tree(root) :
            pre.state[p].is_active => Deliveries(p, op.event.kind) # {}


\* the entries of pod event calls with a MouseDown while the pod has no
\* active widget in its subtree
MouseDownEntries ==
    {i \in LogIdx : /\ log[i].t = "enter"
                    /\ log[i].ev.kind = "MouseDown"
                    /\ ~log[i].bs.has_active}

\* the pointer of the event a pod was entered with lies in its rectangle
Inside(i) == winding(log[i].bs.layout_rect, log[i].ev.pos) # 0

\* C8: for a pod that is not active, a MouseDown inside its layout rectangle
\* leaves is_hot true and is delivered to the inner widget; one outside
\* leaves is_hot false and is not delivered.  The MouseDown arm only ever
\* raises is_hot, and it recurses only when the calling context had no
\* active widget, so a hot pod stays hot under a MouseDown outside it and
\* a pod beside an active widget is not given a MouseDown inside it.
C8_MouseDownHotAndDelivered ==
    Dispatched =>
        \A i \in MouseDownEntries :
            LET p == log[i].pod IN
            IF Inside(i)
            THEN state[p].is_hot /\ Deliveries(p, "MouseDown") # {}
            ELSE ~state[p].is_hot /\ Deliveries(p, "MouseDown") = {}

\* the calls in which a widget called set_handled
HandledAt == {i \in LogIdx : log[i].t = "deliver" /\ log[i].react.handled}

\* the first log record of a pod after position j, or 0
NextRec(p, j) ==
    LET later == {k \in LogIdx : k > j /\ log[k].pod = p}
    IN  IF later = {} THEN 0 ELSE CHOOSE k \in later : \A m \in later : k <= m

\* the pod event call logged at j did nothing: the pod's state is the same
\* at its next step (which is no call of its inner widget), or at the end
Untouched(j) ==
    LET p == log[j].pod
        k == NextRec(p, j)
    IN  IF k = 0 THEN state[p] = log[j].bs
        ELSE log[k].t # "deliver" /\ log[k].bs = log[j].bs

\* C9: once a widget has called set_handled, every pod event call entered
\* later in the dispatch returns at once (no inner widget call, no flag
\* changed), and every context from the handler's up to the root's has
\* is_handled set when the dispatch returns; a non-recursive event passed to
\* a pod's event changes nothing and reaches no inner widget.
C9_HandledStopsPropagation ==
    Dispatched =>
        /\ \A i \in HandledAt :
              /\ \A j \in LogIdx :
                    (j > i /\ log[j].t \in {"enter", "skip"}) =>
                        /\ log[j].t = "skip"
                        /\ log[j].ctx.is_handled
                        /\ Untouched(j)
                        /\ NextRec(log[j].pod, j) = 0
                        /\ state[log[j].pod] = pre.state[log[j].pod]
              /\ \A a \in {log[i].pod} \cup Ancestors(log[i].pod) :
                    \A x \in Recs("exit", a) : log[x].ctx.is_handled
              /\ op.ctx.is_handled
        /\ \A j \in LogIdx :
              (log[j].t \in {"enter", "skip"} /\ ~recurse(log[j].ev)) =>
                  log[j].t = "skip" /\ Untouched(j)

\* a leaf marked the event handled, a sibling subtree entered later was
\* skipped, and a synthesized HotChanged was passed on to a child pod
C9_Witness ==
    /\ Dispatched
    /\ \E i \in HandledAt, j \in LogIdx :
          j > i /\ log[j].t = "skip" /\ log[j].ctx.is_handled
    /\ \E j \in LogIdx : log[j].t = "skip" /\ ~recurse(log[j].ev)


\* the child pod of the root's container, and the pointer of the dispatched
\* event in the coordinate space of the root's widget
RootChild == Children(root)[1]

PosInRoot == PosSub(op.event.pos, origin(pre.state[root].layout_rect))

\* a MouseDown was dispatched at a point of the child's layout rectangle
MouseDownInChild ==
    /\ Dispatched
    /\ op.event.kind = "MouseDown"
    /\ winding(pre.state[RootChild].layout_rect, PosInRoot) # 0

\* C10: in the two-level tree, a MouseDown at a point of the child's layout
\* rectangle reaches the child's inner widget exactly once, with the position
\* less the origins of the root's and the child's rectangles, and afterwards
\* the root's has_active and is_hot are their values during the dispatch
\* ORed with the child's has_active and is_hot.
C10_TwoLevelMouseDown ==
    MouseDownInChild =>
        LET c == RootChild
            calls == Deliveries(c, "MouseDown")
        IN  /\ Cardinality(calls) = 1
            /\ \A i \in calls :
                  log[i].ev.pos =
                      PosSub(PosInRoot, origin(pre.state[c].layout_rect))
            /\ Cardinality(Deliveries(root, "MouseDown")) = 1
            /\ \A d \in Deliveries(root, "MouseDown") :
                  /\ state[root].has_active =
                        (log[d].bs.has_active \/ state[root].is_active
                            \/ state[c].has_active)
                  /\ state[root].is_hot = (log[d].bs.is_hot \/ state[c].is_hot)

\* the child became active on such a MouseDown, at a position that both
\* origins changed
C10_Witness ==
    /\ MouseDownInChild
    /\ state[RootChild].has_active
    /\ ~pre.state[RootChild].has_active
    /\ origin(pre.state[root].layout_rect) # Pt(0, 0)
    /\ origin(pre.state[RootChild].layout_rect) # Pt(0, 0)


\* the leaves that have focus
FocusedLeaves == {p \in Leaves \cap Tree(root) : state[p].has_focus}

\* C5: in every reachable state at most one leaf pod has has_focus.
C5_OneFocusedLeaf == Cardinality(FocusedLeaves) <= 1

\* every ancestor of a pod with focus has focus
FocusIsPath ==
    \A p \in Tree(root) :
        state[p].has_focus => \A a \in Ancestors(p) : state[a].has_focus

\* each pod whose has_focus a FocusChanged dispatch changed had its inner
\* widget called with FocusChanged(the new value)
FocusChangeDelivered ==
    (Dispatched /\ op.event.kind = "FocusChanged") =>
        \A p \in Tree(root) :
            state[p].has_focus # pre.state[p].has_focus =>
                \E i \in Deliveries(p, "FocusChanged") :
                    log[i].ev.val = state[p].has_focus

\* C6: focus is a path property (has_focus of a pod implies has_focus of all
\* its ancestors), and a FocusChanged dispatch calls the inner widget of
\* every pod that gained focus with FocusChanged(true) and of every pod that
\* lost it with FocusChanged(false).
C6_FocusPathAndNotified == FocusIsPath /\ FocusChangeDelivered


\* the entries of pod event calls with a FocusChanged
FocusEntries ==
    {i \in LogIdx : log[i].t = "enter" /\ log[i].ev.kind = "FocusChanged"}

\* a widget of the subtree of p called request_focus after log position i
RequestedAfter(p, i) ==
    \E j \in LogIdx :
        /\ j > i
        /\ log[j].t = "deliver"
        /\ log[j].pod \in {p} \cup Descendants(p)
        /\ log[j].react.focus

\* C7: a FocusChanged dispatched to a pod (event not handled) sets has_focus
\* to the value request_focus had on entry and clears request_focus, once;
\* the inner widget is called if and only if the new or the previous
\* has_focus is true, and with FocusChanged(new has_focus) whatever payload
\* the caller delivered.
C7_FocusChangedDispatch ==
    Dispatched =>
        \A i \in FocusEntries :
            LET p == log[i].pod
                req == log[i].bs.request_focus
                had == log[i].bs.has_focus
                calls == Deliveries(p, "FocusChanged")
            IN  /\ Cardinality(Recs("enter", p)) = 1
                /\ state[p].has_focus = req
                /\ state[p].request_focus = RequestedAfter(p, i)
                /\ (calls # {}) = (req \/ had)
                /\ Cardinality(calls) <= 1
                /\ \A c \in calls :
                      /\ log[c].ev = FocusChanged(req)
                      /\ log[c].bs.has_focus = req
                      /\ ~log[c].bs.request_focus

\* a FocusChanged(false) from the host gave one pod the focus it had
\* requested, took it from another, and left a third without a call
C7_Witness ==
    /\ Dispatched
    /\ op.event = FocusChanged(FALSE)
    /\ \E i \in FocusEntries :
          log[i].bs.request_focus /\ ~log[i].bs.has_focus
    /\ \E i \in FocusEntries :
          ~log[i].bs.request_focus /\ log[i].bs.has_focus
    /\ \E i \in FocusEntries :
          /\ ~log[i].bs.request_focus /\ ~log[i].bs.has_focus
          /\ Deliveries(log[i].pod, "FocusChanged") = {}


\* an update propagation from the root has completed
Updated == op.kind = "update"

\* the calls of pod p's update, and of its inner widget's update
UpdateCalls(p) == {i \in LogIdx : log[i].t = "update" /\ log[i].pod = p}

InnerUpdates(p) == {i \in LogIdx : log[i].t = "inner" /\ log[i].pod = p}

\* the arguments are `same` as those of the preceding call of p's update
SameAsPrecedingCall(p, i) ==
    /\ pre.hist[p].called # <<>>
    /\ same(pre.hist[p].called[1].data, log[i].data)
    /\ same(pre.hist[p].called[1].env, log[i].env)

\* the arguments are `same` as the snapshot p stored
SameAsStored(p, i) ==
    /\ SameAsSnapshot(pre.old_data[p], log[i].data)
    /\ SameAsSnapshot(pre.env[p], log[i].env)

\* C1: a call of a pod's update with data and env both `same` as those of
\* the preceding call on that pod calls the inner widget's update zero
\* times; a call with data or env not `same` as the stored snapshot calls it
\* exactly once.
C1_UnchangedUpdateSkipped ==
    Updated =>
        \A p \in Pods : \A i \in UpdateCalls(p) :
            /\ Cardinality(UpdateCalls(p)) = 1
            /\ SameAsPrecedingCall(p, i) => InnerUpdates(p) = {}
            /\ ~SameAsStored(p, i) => Cardinality(InnerUpdates(p)) = 1

\* an update repeated the data and env of the preceding one on a pod that
\* had received an inner update, and the inner widget was not called
C1_Witness ==
    /\ Updated
    /\ \E i \in UpdateCalls(root) :
          /\ SameAsPrecedingCall(root, i)
          /\ pre.hist[root].inner # <<>>
          /\ InnerUpdates(root) = {}

\* C2: old_data and env of a pod are both None exactly as long as its update
\* was never called, and afterwards hold the data and env last passed to the
\* inner widget's update; the inner update gets old_data = None on the first
\* update call of a pod and only then, and later the data of the previous
\* inner update call.
C2_SnapshotIsLastUpdate ==
    /\ \A p \in Pods :
          /\ (old_data[p] = <<>> /\ env[p] = <<>>) = (hist[p].called = <<>>)
          /\ (old_data[p] = <<>>) = (env[p] = <<>>)
          /\ hist[p].called # <<>> =>
                /\ hist[p].inner # <<>>
                /\ old_data[p] = <<hist[p].inner[1].data>>
                /\ env[p] = <<hist[p].inner[1].env>>
    /\ Updated =>
          \A p \in Pods : \A i \in InnerUpdates(p) :
              /\ (log[i].old = <<>>) = (pre.hist[p].called = <<>>)
              /\ pre.hist[p].inner # <<>> =>
                    log[i].old = <<pre.hist[p].inner[1].data>>

\* a leaf's inner update received the data of the previous inner update,
\* which differs from the new data
C2_Witness ==
    /\ Updated
    /\ \E p \in Leaves : \E i \in InnerUpdates(p) :
          /\ log[i].old # <<>>
          /\ log[i].old # <<log[i].data>>
          /\ log[i].old = <<pre.hist[p].inner[1].data>>

----------------------------------------------------------------------------
(* WidgetPod::paint_with_offset and the paint pass *)

\* Rect::intersect (kurbo): never of negative width or height
intersect(a, b) ==
    LET x0 == Max(a.x0, b.x0)
        y0 == Max(a.y0, b.y0)
        x1 == Min(a.x1, b.x1)
        y1 == Min(a.y1, b.y1)
    IN  Rect(x0, y0, Max(x1, x0), Max(y1, y0))

\* Rect::area
area(rect) == (rect.x1 - rect.x0) * (rect.y1 - rect.y0)

\* Region::intersects
intersects(region, other) == area(intersect(region, other)) > 0

\* paint_ctx.region().to_rect() - layout_origin
RectSub(rect, vec) ==
    Rect(rect.x0 - vec.x, rect.y0 - vec.y, rect.x1 - vec.x, rect.y1 - vec.y)

\* One record per step of a paint pass:
\*   "call"      paint_with_offset_impl of pod was called (region: the
\*               context's visible region, flag: paint_if_not_visible)
\*   "save"      paint_ctx.save() (flag: it returned Ok)
\*   "transform" paint_ctx.transform(Affine::translate(vec))
\*   "paint"     the inner widget's paint was called (region: its context's)
\*   "restore"   paint_ctx.restore() (flag: it returned Ok; region: the
\*               visible region of paint_ctx at that point)
\*   "error"     log::error! of the failure of the step before
PaintRec(t, pod, region, flag, vec) ==
    [t |-> t, pod |-> pod, region |-> region, flag |-> flag, vec |-> vec]

\* a PaintCtx: its visible region (the render context is what the log
\* records)
PaintCtx(region) == [region |-> region]

\* a paint call's outcome: the log so far and the context it was given by
\* &mut, as it is when the call returns
PRet(L, ctx) == [L |-> L, ctx |-> ctx]

\* (mutant) content out of the visible region is painted all the same
PaintSkipped_Never(paint_if_not_visible, region, layout_rect) == FALSE

\* if !paint_if_not_visible && !paint_ctx.region().intersects(layout_rect)
PaintSkipped(paint_if_not_visible, region, layout_rect) ==
    ~paint_if_not_visible /\ ~intersects(region, layout_rect)

\* the temporary context of with_child_ctx: the same render context, the
\* region given
ChildCtx(ctx, region) == [ctx EXCEPT !.region = region]

\* (mutant) the caller's context is left with the region of the temporary
with_child_ctx_Narrows(ctx, rs) == rs

\* PaintCtx::with_child_ctx, given the outcomes rs of f(&mut child_ctx): the
\* temporary context is dropped and the caller's is as it was
with_child_ctx(ctx, rs) == { PRet(r.L, ctx) : r \in rs }

\* (mutant) a failed save is followed by restore
SaveFailed_Restores(p, ctx, L) ==
    PRet(L \o << PaintRec("save", p, ctx.region, FALSE, NoPos),
                 PaintRec("error", p, ctx.region, FALSE, NoPos),
                 PaintRec("restore", p, ctx.region, TRUE, NoPos) >>,
         ctx)

\* if let Err(e) = paint_ctx.save() { log::error!(..); return; }
SaveFailed(p, ctx, L) ==
    PRet(L \o << PaintRec("save", p, ctx.region, FALSE, NoPos),
                 PaintRec("error", p, ctx.region, FALSE, NoPos) >>,
         ctx)

\* if let Err(e) = paint_ctx.restore() { log::error!(..); }: restore may
\* fail, and the function returns either way
Restored(p, r) ==
    { PRet(Append(r.L, PaintRec("restore", p, r.ctx.region, TRUE, NoPos)), r.ctx),
      PRet(r.L \o << PaintRec("restore", p, r.ctx.region, FALSE, NoPos),
                     PaintRec("error", p, r.ctx.region, FALSE, NoPos) >>,
           r.ctx) }

RECURSIVE paint_with_offset_impl(_, _, _, _)
RECURSIVE PaintFrom(_, _, _)
RECURSIVE WidgetPaint(_, _, _)

\* a container of several children: each child pod's paint_with_offset, in
\* order, with the container's context
PaintFrom(cs, i, Rs) ==
    IF i > Len(cs) THEN Rs
    ELSE PaintFrom(cs, i + 1,
                   UNION { paint_with_offset_impl(cs[i], r.ctx, FALSE, r.L) :
                              r \in Rs })

\* Align::paint
AlignPaint(p, ctx, L) ==
    paint_with_offset_impl(Children(p)[1], ctx, FALSE, L)

\* Either::paint: WidgetPod::paint of the branch
EitherPaint(p, ctx, L) == WidgetPaint(Branch(p, widget.current), ctx, L)

\* self.inner.paint(ctx, &self.state, data, &env): its possible outcomes
WidgetPaint(p, ctx, L) ==
    CASE IsEither(p) ->
            EitherPaint(p, ctx,
                        Append(L, PaintRec("paint", p, ctx.region, TRUE, NoPos)))
      [] p \in Leaves ->
            {PRet(Append(L, PaintRec("paint", p, ctx.region, TRUE, NoPos)), ctx)}
      [] Len(Children(p)) = 1 ->
            AlignPaint(p, ctx,
                       Append(L, PaintRec("paint", p, ctx.region, TRUE, NoPos)))
      [] OTHER ->
            PaintFrom(Children(p), 1,
                      {PRet(Append(L, PaintRec("paint", p, ctx.region, TRUE, NoPos)),
                            ctx)})

\* the log after save succeeded and the transform was applied
Transformed(p, ctx, L) ==
    L \o << PaintRec("save", p, ctx.region, TRUE, NoPos),
            PaintRec("transform", p, ctx.region, TRUE,
                     origin(state[p].layout_rect)) >>

\* let visible = paint_ctx.region().to_rect() - layout_origin
VisibleIn(p, ctx) == RectSub(ctx.region, origin(state[p].layout_rect))

\* WidgetPod::paint_with_offset_impl; save and restore may fail
paint_with_offset_impl(p, ctx, paint_if_not_visible, L) ==
    IF PaintSkipped(paint_if_not_visible, ctx.region, state[p].layout_rect)
    THEN {PRet(Append(L, PaintRec("call", p, ctx.region, paint_if_not_visible,
                                  NoPos)),
               ctx)}
    ELSE {SaveFailed(p, ctx,
                     Append(L, PaintRec("call", p, ctx.region,
                                        paint_if_not_visible, NoPos)))}
           \cup
         UNION { Restored(p, r) :
                   r \in with_child_ctx(
                           ctx,
                           WidgetPaint(
                             p, ChildCtx(ctx, VisibleIn(p, ctx)),
                             Transformed(
                               p, ctx,
                               Append(L, PaintRec("call", p, ctx.region,
                                                  paint_if_not_visible,
                                                  NoPos))))) }

\* WidgetPod::paint
PodPaint(p, ctx, L) == WidgetPaint(p, ctx, L)

\* WidgetPod::paint_with_offset
paint_with_offset(p, ctx, L) == paint_with_offset_impl(p, ctx, FALSE, L)

\* WidgetPod::paint_with_offset_always
paint_with_offset_always(p, ctx, L) ==
    paint_with_offset_impl(p, ctx, TRUE, L)

\* the visible regions of the paint contexts handed to the root pod
Regions ==
    { Rect(0, 0, 4, 2), Rect(0, 0, 1, 1), Rect(1, 0, 2, 1), Rect(3, 0, 5, 2),
      Rect(4, 2, 6, 4), Rect(10, 10, 12, 12) }

PaintModes == {"paint", "paint_with_offset", "paint_with_offset_always"}

\* the root pod is painted through one of its three entry points
Paint(mode, region) ==
    /\ op.kind = "none"
    /\ \E r \in CASE mode = "paint" -> PodPaint(root, PaintCtx(region), <<>>)
                    [] mode = "paint_with_offset" ->
                          paint_with_offset(root, PaintCtx(region), <<>>)
                    [] OTHER ->
                          paint_with_offset_always(root, PaintCtx(region), <<>>) :
          log' = r.L
    /\ op' = [NoOp EXCEPT !.kind = "paint", !.pod = root]
    /\ pre' = Snapshot
    /\ UNCHANGED <<root, state, old_data, env, hist, app, widget>>

AnyPaint == \E mode \in PaintModes, region \in Regions : Paint(mode, region)

InitPaint == \E r \in Pods : InitTree(r)

NextPaint == AnyPaint \/ HostIdle

SpecPaint == InitPaint /\ [][NextPaint]_vars

\* a paint pass from the root has completed
Painted == op.kind = "paint"

\* the calls of paint_with_offset_impl in the pass
PaintCalls == {i \in LogIdx : log[i].t = "call"}

\* the render-context operations and inner paint calls of pod p
PaintSteps(p, t) == {j \in LogIdx : log[j].t = t /\ log[j].pod = p}

\* the call's save returned Ok
SaveSucceeded(p) == \E j \in PaintSteps(p, "save") : log[j].flag

\* the rectangle of the called pod intersects the visible region
Visible(i) == intersects(log[i].region, state[log[i].pod].layout_rect)

\* paint_with_offset out of the visible region: nothing is done
PaintCulled ==
    Painted =>
        \A i \in PaintCalls :
            (~log[i].flag /\ ~Visible(i)) =>
                \A t \in {"save", "transform", "restore", "paint"} :
                    PaintSteps(log[i].pod, t) = {}

\* C11 as stated: paint_with_offset out of the visible region does no save,
\* transform or restore and never calls the inner paint;
\* paint_with_offset_always there calls it exactly once when save succeeds;
\* paint_with_offset on a pod that intersects the region calls it exactly
\* once.
C11_PaintCulledOrOnce ==
    /\ PaintCulled
    /\ Painted =>
          \A i \in PaintCalls :
              LET p == log[i].pod IN
              /\ (log[i].flag /\ SaveSucceeded(p)) =>
                    Cardinality(PaintSteps(p, "paint")) = 1
              /\ (~log[i].flag /\ Visible(i)) =>
                    Cardinality(PaintSteps(p, "paint")) = 1

\* C11 amended: as stated, but paint_with_offset on a pod that intersects
\* the region calls the inner paint exactly once when save succeeds, and
\* not at all when it fails (no transform, no restore either).
C11_PaintCulledOrOnceAmended ==
    /\ PaintCulled
    /\ Painted =>
          \A i \in PaintCalls :
              LET p == log[i].pod IN
              (log[i].flag \/ Visible(i)) =>
                  /\ Cardinality(PaintSteps(p, "save")) = 1
                  /\ IF SaveSucceeded(p)
                     THEN /\ Cardinality(PaintSteps(p, "paint")) = 1
                          /\ Cardinality(PaintSteps(p, "transform")) = 1
                          /\ Cardinality(PaintSteps(p, "restore")) = 1
                     ELSE \A t \in {"transform", "restore", "paint"} :
                             PaintSteps(p, t) = {}

\* paint_with_offset_always painted a pod out of the visible region once,
\* and paint_with_offset of its child, out of the region too, did nothing
C11_Witness ==
    /\ Painted
    /\ \E i \in PaintCalls :
          /\ log[i].flag /\ ~Visible(i)
          /\ Cardinality(PaintSteps(log[i].pod, "paint")) = 1
    /\ \E i \in PaintCalls :
          /\ ~log[i].flag /\ ~Visible(i)
          /\ PaintSteps(log[i].pod, "paint") = {}

----------------------------------------------------------------------------
(* Lenses *)

\* A lens: Id, Field (its get borrows item i of a tuple or struct, its
\* get_mut item k), Index (index i of a Vec), Deref (of a Box), Map (getter
\* and setter k), InArc (of the lens subs[1]) or Then (subs[1] then subs[2]).
Lens(tag, i, k, subs) == [tag |-> tag, i |-> i, k |-> k, subs |-> subs]

Id == Lens("Id", 0, "", <<>>)

\* Field::new(get, get_mut)
Field(get_item, get_mut_item) == Lens("Field", get_item, get_mut_item, <<>>)

\* lens!(T, field): both accessors borrow the same field
FieldOf(i) == Field(i, i)

Index(i) == Lens("Index", i, "", <<>>)

Deref == Lens("Deref", 0, "", <<>>)

Map(k) == Lens("Map", 0, k, <<>>)

InArc(inner) == Lens("InArc", 0, "", <<inner>>)

\* LensExt::then / Then::new
Then(left, right) == Lens("Then", 0, "", <<left, right>>)

\* The getters and setters of the Map lenses, on integers:
\*   "succ"  get = x + 1,  put: x = y - 1   (put undoes get)
\*   "half"  get = x / 2,  put: x = y * 2   (get rounds)
MapGet(k, x) ==
    CASE k = "succ" -> IntV(x.n + 1)
      [] k = "half" -> IntV(x.n \div 2)

\* (mutant) the setter of "succ" stores the value it is given
MapPut_Stores(k, x, y) ==
    CASE k = "succ" -> IntV(y.n)
      [] k = "half" -> IntV(y.n * 2)

MapPut(k, x, y) ==
    CASE k = "succ" -> IntV(y.n - 1)
      [] k = "half" -> IntV(y.n * 2)

\* A closure handed to with / with_mut:
\*   "user"       the caller's closure f[1]
\*   "clone"      |x| x.clone()
\*   "ref"        |x| a use of the reference x
\*   "not_same"   |x| !x.same(&temp)
\*   "assign"     |x| *x = value
\*   "keep"       a closure that leaves x as it is
\*   "with"       |b| right.with(b, f)
\*   "with_mut"   |b| right.with_mut(b, f)
\*   "old"        |old_data| lens.with(data, ...)          (LensWrap::update)
\*   "new"        |data| if !old_data.same(data) { inner.update(...) }
\*   "none"       |data| inner.update(ctx, None, data, env)
Fn(tag, arg, lens, f) == [tag |-> tag, arg |-> arg, lens |-> lens, f |-> f]

FUser(f) == Fn("user", <<>>, <<>>, <<f>>)

FClone == Fn("clone", <<>>, <<>>, <<>>)

FRef == Fn("ref", <<>>, <<>>, <<>>)

FNotSame(temp) == Fn("not_same", <<temp>>, <<>>, <<>>)

FAssign(value) == Fn("assign", <<value>>, <<>>, <<>>)

FKeep == Fn("keep", <<>>, <<>>, <<>>)

FWith(right, f) == Fn("with", <<>>, <<right>>, <<f>>)

FWithMut(right, f) == Fn("with_mut", <<>>, <<right>>, <<f>>)

FOld(lens, data) == Fn("old", <<data>>, <<lens>>, <<>>)

FNew(old) == Fn("new", <<old>>, <<>>, <<>>)

FNone == Fn("none", <<>>, <<>>, <<>>)

\* A lens operation threads a machine M: the Arc allocations M.heap and the
\* log M.log.  One log record per step:
\*   "closure"   the caller's closure ran
\*   "make_mut"  Arc::make_mut of allocation ptr (cloned: it made a copy)
\*   "panic"     an index out of bounds
LensRec(t, ptr, cloned) == [t |-> t, ptr |-> ptr, cloned |-> cloned]

\* the log record of inner.update(ctx, old_data, data, env), old_data an
\* Option
InnerUpdate(old, data, M) ==
    [M EXCEPT !.log = Append(@, [t |-> "inner_update", old |-> old, data |-> data])]

\* the result of a call: whether it returned (no panic), the value the
\* mutable reference points to afterwards, what the closure returned (an
\* Option) and the machine
Res(ok, val, ret, M) == [ok |-> ok, val |-> val, ret |-> ret, M |-> M]

Panic(val, M) ==
    Res(FALSE, val, <<>>, [M EXCEPT !.log = Append(@, LensRec("panic", 0, FALSE))])

\* Arc::make_mut: in place when this is the only handle, else on a copy
make_mut(data, M) ==
    LET p == data.n
        rec(c) == LensRec("make_mut", p, c)
    IN  IF M.heap[p].rc = 1
        THEN Res(TRUE, data, <<>>, [M EXCEPT !.log = Append(@, rec(FALSE))])
        ELSE LET h1 == CloneVal(M.heap[p].val, M.heap)
                 h2 == Append([h1 EXCEPT ![p].rc = @ - 1],
                              Cell(1, M.heap[p].val))
             IN  Res(TRUE, ArcV(Len(h2)), <<>>,
                     [M EXCEPT !.heap = h2, !.log = Append(@, rec(TRUE))])

\* (mutant) the value is written back whether or not it changed
InArcWrites_Always(is_same) == TRUE

\* (mutant) the value is never written back
InArcWrites_Never(is_same) == FALSE

\* if self.inner.with(data, |x| !x.same(&temp))
InArcWrites(is_same) == ~is_same

\* (mutant) the index is clamped to the last element
InBounds_Clamped(i, len) == len > 0

\* the bounds check of data[index]
InBounds(i, len) == i < len

\* (mutant) the inner widget is updated whether or not its data changed
UpdatesInner_Always(is_same) == TRUE

\* if !old_data.same(data)
UpdatesInner(is_same) == ~is_same

\* the element data[index] addresses
Slot(i, len) == IF i < len THEN i + 1 ELSE len

RECURSIVE with(_, _, _, _)
RECURSIVE Call(_, _, _)
RECURSIVE with_mut(_, _, _, _)
RECURSIVE CallMut(_, _, _)

\* what the lens l borrows from data: the item of a Field (get for a shared
\* borrow, get_mut for a mutable one), the element of an Index, the
\* contents of a Box, the value a Map's getter computes
Focus(l, data, mutable) ==
    CASE l.tag = "Field" ->
            data.items[(IF mutable THEN l.k ELSE l.i) + 1]
      [] l.tag = "Index" -> data.items[Slot(l.i, Len(data.items))]
      [] l.tag = "Deref" -> data.items[1]
      [] l.tag = "Map" -> MapGet(l.k, data)

\* the index of a lens fails its bounds check on data
IndexPanics(l, data) ==
    l.tag = "Index" /\ ~InBounds(l.i, Len(data.items))

\* data after the closure of with_mut has returned r: the borrowed part
\* holds what the closure left in it; a Map runs its setter on the
\* temporary
Stored(l, data, r) ==
    [r EXCEPT !.val =
        CASE l.tag = "Field" -> [data EXCEPT !.items[l.k + 1] = r.val]
          [] l.tag = "Index" ->
                [data EXCEPT !.items[Slot(l.i, Len(data.items))] = r.val]
          [] l.tag = "Deref" -> [data EXCEPT !.items[1] = r.val]
          [] l.tag = "Map" -> IF r.ok THEN MapPut(l.k, data, r.val) ELSE data]

\* (mutant) the identity lens returns without running the closure
IdWithMut_SkipsClosure(data, f, M) == Res(TRUE, data, <<>>, M)

\* Id::with_mut
IdWithMut(data, f, M) == CallMut(f, data, M)

\* Lens::with of each lens
with(l, data, f, M) ==
    CASE l.tag = "Id" -> Call(f, data, M)
      [] l.tag = "InArc" -> with(l.subs[1], M.heap[data.n].val, f, M)
      [] l.tag = "Then" -> with(l.subs[1], data, FWith(l.subs[2], f), M)
      [] IndexPanics(l, data) -> Panic(data, M)
      [] OTHER -> Call(f, Focus(l, data, FALSE), M)

\* a closure called with a shared reference to x
Call(f, x, M) ==
    CASE f.tag = "user" ->
            Call(f.f[1], x,
                 [M EXCEPT !.log = Append(@, LensRec("closure", 0, FALSE))])
      [] f.tag = "clone" ->
            Res(TRUE, x, <<x>>, [M EXCEPT !.heap = CloneVal(x, @)])
      [] f.tag = "ref" -> Res(TRUE, x, <<x>>, M)
      [] f.tag = "not_same" -> Res(TRUE, x, <<~same(x, f.arg[1])>>, M)
      [] f.tag = "with" -> with(f.lens[1], x, f.f[1], M)
      [] f.tag = "old" -> with(f.lens[1], f.arg[1], FNew(x), M)
      [] f.tag = "new" ->
            IF UpdatesInner(same(f.arg[1], x))
            THEN Res(TRUE, x, <<>>, InnerUpdate(<<f.arg[1]>>, x, M))
            ELSE Res(TRUE, x, <<>>, M)
      [] f.tag = "none" -> Res(TRUE, x, <<>>, InnerUpdate(<<>>, x, M))

\* InArc::with_mut, from its last statement to its first.
\* The temporary is dropped when the function returns or unwinds.
TempDropped(r1) == [r1.M EXCEPT !.heap = DropVal(r1.val, @)]

\* the Arc after self.inner.with_mut(Arc::make_mut(data), |x| *x = temp)
\* returned r3
WrittenBack(mm, r1, r3) ==
    Res(r3.ok, mm.val, r1.ret, [r3.M EXCEPT !.heap[mm.val.n].val = r3.val])

\* self.inner.with_mut(Arc::make_mut(data), |x| *x = temp)
WriteBack(l, r1, mm) ==
    WrittenBack(mm, r1,
                with_mut(l.subs[1], mm.M.heap[mm.val.n].val, FAssign(r1.val),
                         mm.M))

\* (mutant) the value is written through the Arc as it is, shared or not
Compared_InPlace(l, data, r1, r2) ==
    IF ~r2.ok THEN Res(FALSE, data, <<>>, TempDropped(r1))
    ELSE IF InArcWrites(~r2.ret[1])
    THEN WriteBack(l, r1, Res(TRUE, data, <<>>, r2.M))
    ELSE Res(TRUE, data, r1.ret, TempDropped(r1))

\* if self.inner.with(data, |x| !x.same(&temp)) { ... }; v
Compared(l, data, r1, r2) ==
    IF ~r2.ok THEN Res(FALSE, data, <<>>, TempDropped(r1))
    ELSE IF InArcWrites(~r2.ret[1])
    THEN WriteBack(l, r1, make_mut(data, r2.M))
    ELSE Res(TRUE, data, r1.ret, TempDropped(r1))

\* let v = f(&mut temp), then the comparison
Ran(l, data, r1) ==
    IF ~r1.ok THEN Res(FALSE, data, <<>>, TempDropped(r1))
    ELSE Compared(l, data, r1,
                  with(l.subs[1], r1.M.heap[data.n].val, FNotSame(r1.val),
                       r1.M))

\* let mut temp = self.inner.with(data, |x| x.clone()), then f
Cloned(l, data, f, r0) ==
    IF ~r0.ok THEN Res(FALSE, data, <<>>, r0.M)
    ELSE Ran(l, data, CallMut(f, r0.ret[1], r0.M))

\* InArc::with_mut
InArcWithMut(l, data, f, M) ==
    Cloned(l, data, f, with(l.subs[1], M.heap[data.n].val, FClone, M))

\* Lens::with_mut of each lens
with_mut(l, data, f, M) ==
    CASE l.tag = "Id" -> IdWithMut(data, f, M)
      [] l.tag = "InArc" -> InArcWithMut(l, data, f, M)
      [] l.tag = "Then" -> with_mut(l.subs[1], data, FWithMut(l.subs[2], f), M)
      [] IndexPanics(l, data) -> Panic(data, M)
      [] OTHER -> Stored(l, data, CallMut(f, Focus(l, data, TRUE), M))

\* a closure called with a mutable reference to x
CallMut(f, x, M) ==
    CASE f.tag = "user" ->
            CallMut(f.f[1], x,
                    [M EXCEPT !.log = Append(@, LensRec("closure", 0, FALSE))])
      [] f.tag = "assign" ->
            Res(TRUE, f.arg[1], <<>>, [M EXCEPT !.heap = DropVal(x, @)])
      [] f.tag = "keep" -> Res(TRUE, x, <<>>, M)
      [] f.tag = "with_mut" -> with_mut(f.lens[1], x, f.f[1], M)

\* LensExt::get
get(l, data, M) == with(l, data, FUser(FClone), M)

\* LensExt::put
put(l, data, value, M) == with_mut(l, data, FUser(FAssign(value)), M)

\* LensWrap::update of a LensWrap with lens l; old (old_data) is an Option
LensWrapUpdate(l, old, data, M) ==
    IF old # <<>>
    THEN with(l, old[1], FOld(l, data), M)
    ELSE with(l, data, FNone, M)

----------------------------------------------------------------------------
(* Lens operations on the application data *)

\* integers written through a lens are 0..MaxVal
MaxVal == 2
\* indices of the Index lenses are 0..MaxIdx
MaxIdx == 2
\* every Vec has VecLen elements
VecLen == 2
\* at most MaxHeap Arc allocations are made
MaxHeap == 5

Ints == {IntV(n) : n \in 0 .. MaxVal}

Indices == 0 .. MaxIdx

\* strong counts of an Arc the application starts with: uniquely owned, or
\* shared with a handle kept elsewhere
Counts == {1, 2}

MapKinds == {"succ", "half"}

SomeVec == VecV(SubSeq([i \in 1 .. VecLen |-> IntV(i - 1)], 1, VecLen))

\* The data and the lens parts the application starts with; parts of length
\* 1 are used alone, parts of length 3 are composed with then.
LensCase(parts, data, heap, puts) ==
    [ parts |-> parts, data |-> data, old |-> <<>>, heap |-> heap,
      puts |-> puts, last |-> NoLensOp ]

LensCases ==
    \* lens::Id.index(i).in_arc() on an Arc<Vec>
    { LensCase(<<InArc(Then(Id, Index(i)))>>, ArcV(1),
               <<Cell(rc, SomeVec)>>, Ints) : i \in Indices, rc \in Counts }
    \* a struct field holding an Arc<Vec>
    \cup { LensCase(<<FieldOf(0), InArc(Index(i)), Id>>,
                    TupV(<<ArcV(1), IntV(1)>>),
                    <<Cell(rc, SomeVec)>>, Ints) : i \in Indices, rc \in Counts }
    \* an Arc<struct> whose field holds an Arc<Vec>
    \cup { LensCase(<<InArc(FieldOf(0)), InArc(Index(i)), Map(k)>>, ArcV(1),
                    <<Cell(rc, TupV(<<ArcV(2), IntV(0)>>)), Cell(1, SomeVec)>>,
                    Ints) : i \in Indices, rc \in Counts, k \in MapKinds }
    \* a Box<(int, int)>; the Field lens is given any two accessors
    \cup { LensCase(<<Deref, Field(j, jm), Map(k)>>,
                    BoxV(TupV(<<IntV(1), IntV(2)>>)), <<>>, Ints) :
              j \in {0, 1}, jm \in {0, 1}, k \in MapKinds }
    \* an Arc<int> seen through a Map
    \cup { LensCase(<<InArc(Map(k))>>, ArcV(1), <<Cell(rc, IntV(1))>>, Ints) :
              k \in MapKinds, rc \in Counts }
    \* an Arc<struct> focused on a field that is itself an Arc: the values
    \* written are handles of allocations 2 and 3, kept elsewhere too
    \cup { LensCase(<<InArc(FieldOf(0))>>, ArcV(1),
                    <<Cell(rc, TupV(<<ArcV(2), IntV(0)>>)), Cell(2, SomeVec),
                      Cell(1, SomeVec)>>,
                    {ArcV(2), ArcV(3)}) : rc \in Counts }
    \* a plain Vec
    \cup { LensCase(<<Index(i), Id, Map(k)>>, SomeVec, <<>>, Ints) :
              i \in Indices, k \in MapKinds }
    \* a plain integer
    \cup { LensCase(<<Map(k)>>, IntV(1), <<>>, Ints) : k \in MapKinds }

\* the ways the parts are composed
Shapes(parts) ==
    IF Len(parts) = 1 THEN {"plain", "id_then", "then_id"}
    ELSE {"left", "right"}

Compose(parts, shape) ==
    CASE shape = "plain" -> parts[1]
      [] shape = "id_then" -> Then(Id, parts[1])
      [] shape = "then_id" -> Then(parts[1], Id)
      [] shape = "left" -> Then(Then(parts[1], parts[2]), parts[3])
      [] shape = "right" -> Then(parts[1], Then(parts[2], parts[3]))

Machine(heap) == [heap |-> heap, log |-> <<>>]

LensKinds == {"get", "put", "keep"}

\* One lens operation of the application A, and its log:
\*   "get"   lens.get(&data); the copy is dropped after use
\*   "put"   lens.put(&mut data, value), value a copy the caller made
\*   "keep"  lens.with_mut(&mut data, |x| ()), a closure that writes nothing
LensApply(kind, shape, arg, A) ==
    LET l == Compose(A.parts, shape)
        r == CASE kind = "get" -> get(l, A.data, Machine(A.heap))
               [] kind = "put" ->
                     put(l, A.data, arg[1], Machine(CloneVal(arg[1], A.heap)))
               [] OTHER -> with_mut(l, A.data, FUser(FKeep), Machine(A.heap))
        heap1 == CASE kind = "get" /\ r.ok -> DropVal(r.ret[1], r.M.heap)
                   [] kind = "put" /\ ~r.ok -> DropVal(arg[1], r.M.heap)
                   [] OTHER -> r.M.heap
    IN  [ app |-> [A EXCEPT !.data = IF kind = "get" THEN A.data ELSE r.val,
                            !.heap = heap1,
                            !.last = LensOp(kind, shape, l, arg, r.ok, r.ret)],
          log |-> r.M.log ]

\* the application uses its lens once
LensStep(kind, shape, arg) ==
    /\ op.kind = "none"
    /\ Len(app.heap) + 2 <= MaxHeap
    /\ LET r == LensApply(kind, shape, arg, app)
       IN  app' = r.app /\ log' = r.log
    /\ op' = [NoOp EXCEPT !.kind = "lens"]
    /\ pre' = Snapshot
    /\ UNCHANGED <<root, state, old_data, env, hist, widget>>

LensGet == \E shape \in Shapes(app.parts) : LensStep("get", shape, <<>>)

LensPut ==
    \E shape \in Shapes(app.parts), value \in app.puts :
        LensStep("put", shape, <<value>>)

LensKeep == \E shape \in Shapes(app.parts) : LensStep("keep", shape, <<>>)

\* the calls of inner.update that a LensWrap::update logged
InnerCalls(lens_log) == SelectSeq(lens_log, LAMBDA x : x.t = "inner_update")

\* the update propagation after a LensWrap::update that made the calls
\* `calls` of inner.update: each hands on the env the LensWrap was given
Forwarded(p, e, U, calls) ==
    IF calls = <<>> THEN U
    ELSE OwnUpdate(p, calls[1].data, e,
                   [U EXCEPT !.log = Append(@, UpdRec("lensed", p, calls[1].old,
                                                      calls[1].data, e))])

\* (mutant) the wrapped widget is updated on every call, with the
\* projection of the data
LensWrapped_Always(p, l, old, data, e, U) ==
    Forwarded(p, e, U,
              InnerCalls(LensWrapUpdate(l, <<>>, data, Machine(<<>>)).M.log))

\* LensWrap::update of the LensWrap in pod p, with lens l, in an update
\* propagation
LensWrapped(p, l, old, data, e, U) ==
    Forwarded(p, e, U,
              InnerCalls(LensWrapUpdate(l, old, data, Machine(<<>>)).M.log))

\* the lenses of the LensWrap widgets over the application data: the
\* composed lens, its first part and the identity
WrapLenses(parts) ==
    {Compose(parts, shape) : shape \in Shapes(parts)} \cup {parts[1], Id}

\* the pod holding LensWrap::new(inner, l) is updated with the snapshot of
\* the data it keeps and the application data, then keeps a copy of the
\* data as its snapshot
WrapUpdate ==
    \E l \in WrapLenses(app.parts) :
        /\ op.kind = "none"
        /\ LET r == LensWrapUpdate(l, app.old, app.data, Machine(app.heap))
               h1 == IF app.old = <<>> THEN r.M.heap
                     ELSE DropVal(app.old[1], r.M.heap)
           IN  /\ app' = [app EXCEPT
                            !.old = IF r.ok THEN <<app.data>> ELSE @,
                            !.heap = IF r.ok THEN CloneVal(app.data, h1)
                                     ELSE r.M.heap,
                            !.last = LensOp("update", "", l, app.old, r.ok,
                                            <<>>)]
               /\ log' = r.M.log
        /\ op' = [NoOp EXCEPT !.kind = "wrap"]
        /\ pre' = Snapshot
        /\ UNCHANGED <<root, state, old_data, env, hist, widget>>

InitLens ==
    /\ root = 1
    /\ state = [p \in Pods |-> NewPod.state]
    /\ old_data = [p \in Pods |-> NewPod.old_data]
    /\ env = [p \in Pods |-> NewPod.env]
    /\ hist = [p \in Pods |-> [called |-> <<>>, inner |-> <<>>, rect |-> <<>>]]
    /\ op = NoOp
    /\ app \in LensCases
    /\ widget = NoWidget
    /\ pre = Snapshot
    /\ log = <<>>

NextLens == LensGet \/ LensPut \/ LensKeep \/ WrapUpdate \/ HostIdle

SpecLens == InitLens /\ [][NextLens]_vars

----------------------------------------------------------------------------
(* Claims about lenses *)

\* a lens operation has completed
LensDone == op.kind = "lens"

\* what the lens of that operation focused on before it (a result: .ok is
\* false when the path is not valid)
FocusBefore ==
    with(app.last.lens, pre.app.data, FRef, Machine(pre.app.heap))

\* what it focuses on now
FocusAfter == with(app.last.lens, app.data, FRef, Machine(app.heap))

MakeMuts == {i \in LogIdx : log[i].t = "make_mut"}

ClosureRuns == {i \in LogIdx : log[i].t = "closure"}

\* the lens is one wrapped by in_arc
Wrapped == app.last.lens.tag = "InArc"

\* the operation left the focused value `same` as the value read before it
LeftSame ==
    \/ app.last.kind \in {"get", "keep"}
    \/ app.last.kind = "put" /\ same(app.last.arg[1], FocusBefore.ret[1])

\* C12: through an InArc-wrapped lens, a with_mut or put that leaves the
\* focused value `same` as the value read, and a get, never call
\* Arc::make_mut: the Arc is the same allocation, with the same contents and
\* the same strong count, whether it is shared or uniquely owned.
C12_NoOpWriteKeepsArc ==
    (LensDone /\ Wrapped /\ FocusBefore.ok /\ LeftSame) =>
        /\ MakeMuts = {}
        /\ app.data = pre.app.data
        /\ app.heap = pre.app.heap

\* a shared Arc and a put of the value it held; a closure ran
C12_Witness ==
    /\ LensDone /\ Wrapped /\ FocusBefore.ok
    /\ app.last.kind = "put"
    /\ same(app.last.arg[1], FocusBefore.ret[1])
    /\ pre.app.heap[pre.app.data.n].rc = 2
    /\ ClosureRuns # {}
    /\ app.data = pre.app.data

\* a put through an InArc-wrapped lens of a value not `same` as the focused
\* one
WroteOther ==
    /\ LensDone /\ Wrapped /\ FocusBefore.ok
    /\ app.last.kind = "put"
    /\ ~same(app.last.arg[1], FocusBefore.ret[1])

\* C13 as stated: such a put yields a container that is not identity-equal
\* to the original Arc and holds the written value at the focused position.
C13_WriteReplacesArc ==
    WroteOther =>
        /\ app.data.n # pre.app.data.n
        /\ FocusAfter.ret = app.last.arg

\* C13 amended: such a put calls Arc::make_mut once and the container holds
\* the written value at the focused position; when the Arc was shared the
\* container is a new allocation and the original keeps its contents, when
\* it was uniquely owned the container is the same allocation, changed in
\* place.
C13_WriteReplacesSharedArc ==
    WroteOther =>
        LET p == pre.app.data.n IN
        /\ FocusAfter.ret = app.last.arg
        /\ Cardinality(MakeMuts) = 1
        /\ IF pre.app.heap[p].rc > 1
           THEN /\ app.data.n # p
                /\ app.heap[p].val = pre.app.heap[p].val
                /\ app.heap[p].rc = pre.app.heap[p].rc - 1
                /\ app.heap[app.data.n].rc = 1
           ELSE app.data.n = p

\* a shared Arc was written through and replaced by a copy
C13_Witness ==
    /\ WroteOther
    /\ pre.app.heap[pre.app.data.n].rc = 2
    /\ app.data.n # pre.app.data.n
    /\ FocusAfter.ret = app.last.arg

\* a put gave back the value a get had just read on a valid path
PutBack ==
    /\ LensDone
    /\ app.last.kind = "put"
    /\ FocusBefore.ok
    /\ app.last.arg = FocusBefore.ret

\* the two accessors of every Field of the lens borrow the same item and
\* every Map has a setter that undoes its getter, except under an in_arc
\* wrapper (which compares before it writes)
RECURSIVE Lawful(_)
Lawful(l) ==
    CASE l.tag = "Map" -> l.k = "succ"
      [] l.tag = "Field" -> l.i = l.k
      [] l.tag = "Then" -> Lawful(l.subs[1]) /\ Lawful(l.subs[2])
      [] OTHER -> TRUE

\* C14 as stated: for every lens built from Id, Field, Index, Deref, Map and
\* InArc by then, putting back the value just read leaves the whole state
\* `same`.
C14_GetPutNoOp ==
    PutBack =>
        /\ app.data = pre.app.data
        /\ Deep(app.data, app.heap) = Deep(pre.app.data, pre.app.heap)

\* C14 amended: it does when the accessors of every Field in the lens borrow
\* the same item and the setter of every Map undoes its getter (or they are
\* under an in_arc wrapper); the state is then unchanged altogether,
\* allocations and strong counts included.
C14_GetPutNoOpLawful ==
    (PutBack /\ Lawful(app.last.lens)) =>
        /\ app.data = pre.app.data
        /\ app.heap = pre.app.heap

\* the value read through three composed lenses, two of them in_arc, on
\* shared data was put back
C14_Witness ==
    /\ PutBack
    /\ Lawful(app.last.lens)
    /\ Len(app.parts) = 3
    /\ app.parts[1].tag = "InArc"
    /\ app.parts[3].tag = "Map"
    /\ pre.app.heap[1].rc = 2
    /\ ClosureRuns # {}

\* C15: then is associative and Id is its unit: the operation has the
\* outcome (value returned, resulting data and allocations, failure) it
\* has through every other way of composing the same lenses.
C15_ThenAssociative ==
    LensDone =>
        \A shape \in Shapes(app.parts) :
            LET alt == LensApply(app.last.kind, shape, app.last.arg, pre.app).app
            IN  /\ alt.data = app.data
                /\ alt.heap = app.heap
                /\ alt.last.ok = app.last.ok
                /\ alt.last.ret = app.last.ret

\* a put through (a.then(b)).then(c) that changed an Arc
C15_Witness ==
    /\ LensDone
    /\ app.last.shape = "left"
    /\ app.last.kind = "put"
    /\ app.last.ok
    /\ MakeMuts # {}
    /\ app.data # pre.app.data

\* the lens has an Index beyond the end of the Vec
RECURSIVE OutOfBounds(_)
OutOfBounds(l) ==
    \/ l.tag = "Index" /\ l.i >= VecLen
    \/ \E j \in 1 .. Len(l.subs) : OutOfBounds(l.subs[j])

\* C16: a read or a mutation through an Index out of bounds panics: nothing
\* is returned, the closure is not run, no Arc::make_mut is called and the
\* data and the allocations are as before; under in_arc too.
C16_IndexOutOfBoundsPanics ==
    (LensDone /\ OutOfBounds(app.last.lens)) =>
        /\ ~app.last.ok
        /\ app.last.ret = <<>>
        /\ \E i \in LogIdx : log[i].t = "panic"
        /\ ClosureRuns = {}
        /\ MakeMuts = {}
        /\ app.data = pre.app.data
        /\ app.heap = pre.app.heap

\* a put through lens::Id.index(i).in_arc() with i out of bounds, on a
\* shared Arc, panicked
C16_Witness ==
    /\ LensDone
    /\ Wrapped
    /\ OutOfBounds(app.last.lens)
    /\ app.last.kind = "put"
    /\ pre.app.heap[1].rc = 2
    /\ ~app.last.ok

----------------------------------------------------------------------------
(* Claims about the isolation of shared Arcs *)

\* lenses onto the positions of the data that lens l does not focus: another
\* element of the Vec an Index addresses, the other field of the struct a
\* Field addresses, at every level of l
RECURSIVE Siblings(_)
Siblings(l) ==
    CASE l.tag = "Index" -> {Index(j) : j \in (0 .. VecLen - 1) \ {l.i}}
      [] l.tag = "Field" -> {FieldOf(j) : j \in {0, 1} \ {l.k}}
      [] l.tag = "InArc" -> {InArc(s) : s \in Siblings(l.subs[1])}
      [] l.tag = "Then" ->
            Siblings(l.subs[1])
                \cup {Then(l.subs[1], s) : s \in Siblings(l.subs[2])}
      [] OTHER -> {}

\* what is read through lens l from data in the allocations heap, every Arc
\* handle in it followed to its contents
ReadDeep(l, data, heap) ==
    LET r == with(l, data, FRef, Machine(heap))
    IN  IF r.ok THEN <<Deep(r.ret[1], heap)>> ELSE <<>>

\* a put, through a lens on an Arc that has other live handles, of a value
\* not `same` as the focused one
WroteShared ==
    /\ LensDone
    /\ app.last.kind = "put" /\ app.last.ok
    /\ pre.app.data.tag = "arc"
    /\ pre.app.heap[pre.app.data.n].rc > 1
    /\ FocusBefore.ok
    /\ ~same(app.last.arg[1], FocusBefore.ret[1])

\* C33: when a value not `same` as the focused one is written through an
\* InArc lens on a handle of an Arc that has other live handles, the other
\* handles (the snapshot a pod keeps among them) still point to the original
\* allocation, which holds the contents it held; the written handle points
\* to another allocation, where the lens reads the written value; and every
\* position the lens does not focus reads the same in the old and the new
\* container.
C33_SharedArcIsolated ==
    WroteShared =>
        LET p == pre.app.data.n IN
        /\ app.data.n # p
        /\ app.heap[p].rc = pre.app.heap[p].rc - 1
        /\ app.heap[p].val = pre.app.heap[p].val
        /\ Deep(ArcV(p), app.heap) = Deep(ArcV(p), pre.app.heap)
        /\ app.old = pre.app.old
        /\ app.old # <<>> =>
              Deep(app.old[1], app.heap) = Deep(app.old[1], pre.app.heap)
        /\ FocusAfter.ret = app.last.arg
        /\ ReadDeep(app.last.lens, ArcV(p), app.heap)
              = ReadDeep(app.last.lens, ArcV(p), pre.app.heap)
        /\ \A s \in Siblings(app.last.lens) :
              ReadDeep(s, app.data, app.heap)
                  = ReadDeep(s, pre.app.data, pre.app.heap)

\* an Arc a pod's snapshot also points to was written through two in_arc
\* lenses: the snapshot reads the old value, the data the new one, and the
\* other positions read the same
C33_Witness ==
    /\ WroteShared
    /\ app.old = <<pre.app.data>>
    /\ Len(app.parts) = 3
    /\ Siblings(app.last.lens) # {}
    /\ \A s \in Siblings(app.last.lens) :
          ReadDeep(s, app.data, app.heap) # <<>>
    /\ ReadDeep(app.last.lens, app.old[1], app.heap)
          # ReadDeep(app.last.lens, app.data, app.heap)

----------------------------------------------------------------------------
(* Claims about LensWrap *)

\* a LensWrap::update has completed
WrapDone == op.kind = "wrap"

\* the old_data it was given (an Option) and the data
WrapOld == app.last.arg

WrapData == pre.app.data

\* the projections of the two through the lens of the LensWrap
OldProjection ==
    with(app.last.lens, WrapOld[1], FRef, Machine(pre.app.heap))

NewProjection ==
    with(app.last.lens, WrapData, FRef, Machine(pre.app.heap))

\* the calls of the inner widget's update
WrapUpdates == {i \in LogIdx : log[i].t = "inner_update"}

\* C19: LensWrap::update with old_data Some whose projection through the
\* lens is `same` as the projection of the data does not call the inner
\* widget's update, whatever else changed in the outer data; when the
\* projections differ it calls it once with (Some(projected old), projected
\* new); when old_data is None it calls it once with None and the
\* projected data.
C19_LensWrapUpdateScoped ==
    (WrapDone /\ NewProjection.ok) =>
        IF WrapOld = <<>>
        THEN /\ Cardinality(WrapUpdates) = 1
             /\ \A i \in WrapUpdates :
                    log[i].old = <<>> /\ log[i].data = NewProjection.ret[1]
        ELSE OldProjection.ok =>
               IF same(OldProjection.ret[1], NewProjection.ret[1])
               THEN WrapUpdates = {}
               ELSE /\ Cardinality(WrapUpdates) = 1
                    /\ \A i \in WrapUpdates :
                           /\ log[i].old = OldProjection.ret
                           /\ log[i].data = NewProjection.ret[1]

\* the outer data changed since the snapshot, outside the scope of the
\* lens: the inner widget was not updated
C19_Witness ==
    /\ WrapDone
    /\ WrapOld # <<>>
    /\ ~same(WrapOld[1], WrapData)
    /\ OldProjection.ok /\ NewProjection.ok
    /\ same(OldProjection.ret[1], NewProjection.ret[1])
    /\ app.last.lens # Id
    /\ WrapUpdates = {}

----------------------------------------------------------------------------
(* The cursor and the commands of one event propagation *)

\* the handlers of the leaf widgets: calls of set_cursor and submit_command,
\* some marking the event handled
CursorReactions ==
    { NoReaction,
      Calling(NoReaction, <<"IBeam">>, <<>>),
      Calling(NoReaction, <<"IBeam", "Arrow">>, <<Submit("a", <<>>)>>),
      Calling(Reaction("keep", TRUE, FALSE, FALSE, FALSE, FALSE), <<>>,
              <<Submit("b", <<2>>), Submit("a", <<>>)>>),
      Calling(Reaction("keep", TRUE, FALSE, FALSE, FALSE, FALSE), <<"Arrow">>,
              <<>>) }

\* their handlers of the synthesized HotChanged
CursorHotReactions ==
    { NoReaction, Calling(NoReaction, <<"Crosshair">>, <<Submit("c", <<>>)>>) }

\* the container of several children may set the cursor and submit a
\* command before it forwards the event
CursorRowReactions ==
    { NoReaction, Calling(NoReaction, <<"Arrow">>, <<Submit("r", <<1>>)>>) }

\* the cursor slot, the command queue and the window id the window's
\* handler dispatches with
Windows ==
    { PlainWindow,
      Window(<<"Arrow">>, <<>>, 2),
      Window(<<>>, <<[window_id |-> 2, command |-> "z"]>>, 2) }

CursorDispatch ==
    \E pos \in Points, win \in Windows :
        DispatchIn(Ev("MouseMoved", pos, FALSE),
                   [main |-> CursorReactions, hot |-> CursorHotReactions,
                    row |-> CursorRowReactions],
                   win)

InitCursor == InitTree(1)

NextCursor == CursorDispatch \/ HostIdle

SpecCursor == InitCursor /\ [][NextCursor]_vars

\* the handler calls of the completed dispatch, in the order they were made
Delivered == SelectSeq(log, LAMBDA rec : rec.t = "deliver")

\* the commands a sequence of handler calls submitted, in order, each with
\* the window it is for
RECURSIVE Submitted(_, _)
Submitted(calls, ctx_window_id) ==
    IF calls = <<>> THEN <<>>
    ELSE [i \in 1 .. Len(Head(calls).react.commands) |->
            LET c == Head(calls).react.commands[i]
            IN  [window_id |-> IF c.window_id # <<>> THEN c.window_id[1]
                               ELSE ctx_window_id,
                 command |-> c.command]]
         \o Submitted(Tail(calls), ctx_window_id)

\* the cursors a sequence of handler calls set, in order
RECURSIVE CursorsSet(_)
CursorsSet(calls) ==
    IF calls = <<>> THEN <<>>
    ELSE Head(calls).react.cursors \o CursorsSet(Tail(calls))

\* C17: when a dispatch returns, the command queue holds what it held
\* before followed by every command submitted during the dispatch, by any
\* pod and during the synthesized HotChanged too, in the order of the
\* submit_command calls, each with the window given or else the window id
\* of the context.
C17_CommandsQueuedInOrder ==
    Dispatched =>
        op.window.command_queue =
            op.given.command_queue \o Submitted(Delivered, op.given.window_id)

\* the container, a leaf handling HotChanged and then the event, and a
\* second leaf submitted commands, with and without a target, to a queue
\* that held one
C17_Witness ==
    /\ Dispatched
    /\ op.given.command_queue # <<>>
    /\ Len(op.window.command_queue) >= 6
    /\ \E i \in LogIdx :
          /\ log[i].t = "deliver" /\ log[i].ev.kind = "HotChanged"
          /\ log[i].react.commands # <<>>
    /\ \E i, j \in LogIdx :
          /\ log[i].t = "deliver" /\ log[j].t = "deliver"
          /\ log[i].pod \in Leaves /\ log[j].pod \in Leaves
          /\ log[i].pod # log[j].pod
          /\ log[i].react.commands # <<>> /\ log[j].react.commands # <<>>

\* C18: when a dispatch returns, the cursor slot holds the cursor of the
\* last set_cursor call made during it, by the container or a descendant,
\* and what it held before when there was no call.
C18_LastCursorWins ==
    Dispatched =>
        LET cs == CursorsSet(Delivered)
        IN  op.window.cursor =
                IF cs = <<>> THEN op.given.cursor ELSE <<cs[Len(cs)]>>

\* the container set the cursor, then a leaf set another twice; the slot
\* held a cursor before
C18_Witness ==
    /\ Dispatched
    /\ op.given.cursor # <<>>
    /\ Len(CursorsSet(Delivered)) >= 3
    /\ \E i \in LogIdx :
          /\ log[i].t = "deliver" /\ log[i].pod \notin Leaves
          /\ log[i].react.cursors # <<>>
    /\ op.window.cursor # op.given.cursor
    /\ op.window.cursor # <<CursorsSet(Delivered)[1]>>

----------------------------------------------------------------------------
(* Hot status, with a child placed partly outside its container *)

\* the layouts above, and one in which the container (pod 1) has given its
\* child pod 3 a rectangle that extends beyond its own
HotLayouts ==
    Layouts \cup
    { [p \in Pods |->
         CASE p = 1 -> Rect(0, 0, 4, 2)
           [] p = 2 -> Rect(1, 0, 3, 2)
           [] p = 3 -> Rect(3, 0, 6, 2)
           [] p = 4 -> Rect(1, 1, 2, 2)] }

InitHot ==
    /\ root = 1
    /\ \E layout \in HotLayouts :
          state = [p \in Pods |-> set_layout_rect(NewPod.state, layout[p])]
    /\ old_data = [p \in Pods |-> NewPod.old_data]
    /\ env = [p \in Pods |-> NewPod.env]
    /\ hist = [p \in Pods |-> [called |-> <<>>, inner |-> <<>>,
                               rect |-> <<state[p].layout_rect>>]]
    /\ op = NoOp
    /\ app = NoApp
    /\ widget = NoWidget
    /\ pre = Snapshot
    /\ log = <<>>

NextHot == MouseDispatch \/ HostIdle

SpecHot == InitHot /\ [][NextHot]_vars

\* a MouseMoved dispatch has completed
Moved == Dispatched /\ op.event.kind = "MouseMoved"

\* the position of the event pod p's event was called with (in the
\* coordinate space of p's parent) lies in p's layout rectangle
PointerInside(p) ==
    \E i \in Recs("enter", p) :
        winding(state[p].layout_rect, log[i].ev.pos) # 0

\* a child pod of p that the event went through ended hot
HotChild(p) ==
    \E i \in 1 .. Len(Children(p)) :
        Entered(Children(p)[i]) /\ state[Children(p)[i]].is_hot

----------------------------------------------------------------------------
(* The synthesized HotChanged *)

\* a mouse event dispatch has completed
MouseDispatched == Dispatched /\ op.event.kind \in MouseKinds

\* the pod event calls of the dispatch that passed the first check
Entries == {i \in LogIdx : log[i].t = "enter"}

\* the calls of the pod's inner widget with a synthesized HotChanged
HotCalls(i) == Deliveries(log[i].pod, "HotChanged")

\* is_hot of the pod after the hit test of the match arm: a MouseMoved sets
\* it to whether the pointer is in the rectangle, a MouseDown sets it when
\* the pointer is in the rectangle, a MouseUp leaves it
HotAfterArm(i) ==
    CASE log[i].ev.kind = "MouseMoved" -> Inside(i)
      [] log[i].ev.kind = "MouseDown" -> log[i].bs.is_hot \/ Inside(i)
      [] OTHER -> log[i].bs.is_hot

\* one HotChanged(hot) call of the inner widget, before the main event
OneHotChanged(i, hot) ==
    /\ Cardinality(HotCalls(i)) = 1
    /\ \A h \in HotCalls(i) :
          /\ log[h].ev.val = hot
          /\ \A d \in Deliveries(log[i].pod, op.event.kind) : h < d

\* C21 as stated: whenever a pod's is_hot changes value during the dispatch
\* of a mouse event (its value when the pod's event returns differs from the
\* one on entry), the inner widget receives exactly one HotChanged(new
\* value), before the main event; when is_hot does not change, no
\* HotChanged is synthesized.
C21_HotChangedOnChange ==
    MouseDispatched =>
        \A i \in Entries :
            LET hot == state[log[i].pod].is_hot IN
            IF hot # log[i].bs.is_hot
            THEN OneHotChanged(i, hot)
            ELSE HotCalls(i) = {}

\* C21 amended: whenever the hit test of the pod's match arm changes is_hot,
\* the inner widget receives exactly one HotChanged(new value), before the
\* main event and also when the main event is not delivered; when the hit
\* test leaves is_hot as it was, no HotChanged is synthesized, even if the
\* merge of a hot child then raises the pod's is_hot.
C21_HotChangedOnHitTestChange ==
    MouseDispatched =>
        \A i \in Entries :
            IF HotAfterArm(i) # log[i].bs.is_hot
            THEN OneHotChanged(i, HotAfterArm(i))
            ELSE HotCalls(i) = {}

\* a pod received HotChanged and then the main event; another received
\* HotChanged though it did not recurse; a third was left without
C21_Witness ==
    /\ MouseDispatched
    /\ \E i \in Entries :
          /\ HotCalls(i) # {} /\ log[i].recurse
          /\ Deliveries(log[i].pod, op.event.kind) # {}
    /\ \E i \in Entries : HotCalls(i) # {} /\ ~log[i].recurse
    /\ \E i \in Entries : HotCalls(i) = {} /\ log[i].recurse

----------------------------------------------------------------------------
(* Mouse buttons under an active pod *)

\* the calls of a child pod's event, by its parent's widget, with a
\* MouseDown or a MouseUp
ButtonCalls ==
    {i \in LogIdx : /\ log[i].t \in {"enter", "skip"}
                    /\ log[i].ev.kind \in {"MouseDown", "MouseUp"}
                    /\ log[i].ctx.owner # Host}

\* the parent pod had has_active set when its own event was entered
ParentHadActive(i) ==
    \E j \in Recs("enter", Parent(log[i].pod)) : log[j].bs.has_active

\* the inner widget of the called pod received the event
Received(i) == Deliveries(log[i].pod, log[i].ev.kind) # {}

\* the recursion rule of the claim for the call logged at i
ButtonRule(i) ==
    CASE log[i].bs.has_active -> Received(i)
      [] ParentHadActive(i) -> ~Received(i)
      [] OTHER -> Received(i) <=> Inside(i)

\* C22 as stated: of the MouseDown and MouseUp calls a pod P's widget makes
\* on its child pods, a child with has_active always receives the event; a
\* child without, under a P with has_active, never does; and a child
\* without, under a P without, receives it exactly when the pointer lies in
\* its rectangle.
C22_ButtonsFollowActive ==
    Dispatched => \A i \in ButtonCalls : ButtonRule(i)

\* C22 amended: the same of the calls made while the event is not yet
\* handled; a call made with a handled event delivers nothing, to a child
\* with has_active either.
C22_UnhandledButtonsFollowActive ==
    Dispatched =>
        \A i \in ButtonCalls :
            IF log[i].t = "enter" THEN ButtonRule(i) ELSE ~Received(i)

\* under a pod with has_active, a child with has_active received the event
\* with the pointer outside its rectangle and a child without did not
\* receive it with the pointer inside
C22_Witness ==
    /\ Dispatched
    /\ \E i, j \in ButtonCalls :
          /\ log[i].t = "enter" /\ log[j].t = "enter"
          /\ Parent(log[i].pod) = Parent(log[j].pod)
          /\ ParentHadActive(i)
          /\ log[i].bs.has_active /\ ~Inside(i) /\ Received(i)
          /\ ~log[j].bs.has_active /\ Inside(j) /\ ~Received(j)

----------------------------------------------------------------------------
(* Keyboard events *)

\* the calls of a pod's event with a KeyDown, a KeyUp or a Paste
KeyCalls ==
    {i \in LogIdx : log[i].t \in {"enter", "skip"} /\ log[i].ev.kind \in KeyKinds}

\* C23: a KeyDown, KeyUp or Paste is delivered to a pod's inner widget
\* exactly when the pod has focus at the call and the event is not already
\* handled; it is delivered once and as it came; a pod without focus
\* delivers it to no pod of its subtree.
C23_KeysFollowFocus ==
    Dispatched =>
        \A i \in KeyCalls :
            LET p == log[i].pod
                calls == Recs("deliver", p)
            IN  /\ Received(i) <=> (log[i].bs.has_focus /\ ~log[i].ctx.is_handled)
                /\ Cardinality(calls) <= 1
                /\ \A d \in calls : log[d].ev = op.event /\ log[d].ev = log[i].ev
                /\ ~log[i].bs.has_focus =>
                      \A j \in LogIdx : log[j].pod \notin Descendants(p)

\* a key event went down the focused path to a leaf and was withheld from a
\* pod without focus
C23_Witness ==
    /\ Dispatched
    /\ op.event.kind \in {"KeyUp", "Paste"}
    /\ \E i \in KeyCalls :
          log[i].pod \in Leaves /\ log[i].bs.has_focus /\ Received(i)
    /\ \E i \in KeyCalls :
          log[i].t = "enter" /\ ~log[i].bs.has_focus /\ ~Received(i)

----------------------------------------------------------------------------
(* Size, AnimFrame and Timer events, through every tree *)

FlagEvents == {Ev(k, NoPos, FALSE) : k \in {"Size", "AnimFrame", "Timer", "Command"}}

\* handlers that mark the event handled, invalidate, request an animation
\* frame and request a timer, in any combination
FlagReactions ==
    {Reaction("keep", h, FALSE, i, a, t) :
        h \in BOOLEAN, i \in BOOLEAN, a \in BOOLEAN, t \in BOOLEAN}

FlagDispatch ==
    \E event \in FlagEvents : Dispatch(event, Reacts(FlagReactions, {NoReaction}))

InitFlags == \E r \in Pods : InitTree(r)

NextFlags == FlagDispatch \/ HostIdle

SpecFlags == InitFlags /\ [][NextFlags]_vars

\* a dispatch of an event of kind k has completed
DispatchedKind(k) == Dispatched /\ op.event.kind = k

\* C24: a Size event is delivered to a pod's inner widget only when the
\* calling context has is_root, which is the case of the root pod alone:
\* every context a pod hands to its widget has is_root false, so no pod
\* beneath another receives a Size event.
C24_SizeOnlyToRoot ==
    DispatchedKind("Size") =>
        /\ \A i \in Entries : Received(i) <=> log[i].ctx.is_root
        /\ \A i \in LogIdx :
              log[i].t = "deliver" => log[i].pod = root /\ ~log[i].ctx.is_root
        /\ \A i \in Entries : log[i].ctx.is_root <=> log[i].pod = root

\* a Size event reached the root's container, which passed it to its child
\* pods; none delivered it
C24_Witness ==
    /\ DispatchedKind("Size")
    /\ Recs("deliver", root) # {}
    /\ \E p \in Pods \ {root} : Entered(p) /\ Recs("deliver", p) = {}
    /\ Cardinality({p \in Pods : Entered(p)}) = 3

\* the calls of a pod's event in the dispatch
Calls == {i \in LogIdx : log[i].t \in {"enter", "skip"}}

\* a widget of the pod's subtree called request_anim_frame in the dispatch
AnimRequested(p) ==
    \E d \in LogIdx :
        /\ log[d].t = "deliver" /\ log[d].react.anim
        /\ log[d].pod \in {p} \cup Descendants(p)

\* the rule of the claim for the call logged at i: the frame is delivered
\* exactly when request_anim was set, the flag is clear when the handler
\* runs, and it is set afterwards exactly when it was requested again
AnimRule(i) ==
    LET p == log[i].pod IN
    /\ Received(i) <=> log[i].bs.request_anim
    /\ Cardinality(Recs("deliver", p)) <= 1
    /\ \A d \in Recs("deliver", p) : ~log[d].bs.request_anim
    /\ state[p].request_anim <=> AnimRequested(p)

\* C25 as stated: on an AnimFrame a pod delivers the event exactly when its
\* request_anim was set on entry, with the flag already clear when the
\* handler runs; afterwards its request_anim is set only if a widget of its
\* subtree requested a frame again during the dispatch.
C25_AnimFrameConsumesRequest ==
    DispatchedKind("AnimFrame") => \A i \in Calls : AnimRule(i)

\* C25 amended: the same of the calls made while the event is not yet
\* handled; a call made with a handled event delivers nothing and leaves
\* the pod's request_anim as it was, set or not.
C25_UnhandledAnimFrameConsumesRequest ==
    DispatchedKind("AnimFrame") =>
        \A i \in Calls :
            IF log[i].t = "enter" THEN AnimRule(i)
            ELSE /\ ~Received(i)
                 /\ state[log[i].pod].request_anim = log[i].bs.request_anim

\* a leaf received the frame and requested another; its flag is set again;
\* another pod that had requested none was entered and received nothing
C25_Witness ==
    /\ DispatchedKind("AnimFrame")
    /\ \E i \in Entries :
          /\ log[i].pod \in Leaves /\ log[i].bs.request_anim /\ Received(i)
          /\ state[log[i].pod].request_anim
    /\ \E i \in Entries : ~log[i].bs.request_anim /\ ~Received(i)

\* a widget of the pod's subtree called request_timer in the dispatch
TimerRequested(p) ==
    \E d \in LogIdx :
        /\ log[d].t = "deliver" /\ log[d].react.timer
        /\ log[d].pod \in {p} \cup Descendants(p)

\* after a dispatch a pod's request_timer is set exactly when it was set
\* before or a widget of its subtree called request_timer: never cleared,
\* never set without a request
TimerSticky ==
    Dispatched =>
        \A p \in Tree(root) :
            state[p].request_timer <=>
                (pre.state[p].request_timer \/ TimerRequested(p))

\* C26 as stated: request_timer is sticky, whatever events follow, and is
\* set only by a request in the pod's subtree; a Timer event is delivered to
\* a pod's inner widget exactly when the pod's request_timer is set, so a
\* pod that requested a timer receives every later Timer event.
C26_TimerStickyAndDelivered ==
    /\ TimerSticky
    /\ DispatchedKind("Timer") =>
          \A i \in Calls : Received(i) <=> log[i].bs.request_timer

\* C26 amended: request_timer is sticky and set only by a request in the
\* pod's subtree; a Timer event that is not yet handled is delivered to a
\* pod's inner widget exactly when the pod's request_timer is set; one that
\* is already handled is not delivered, to a pod that requested a timer
\* either.
C26_TimerStickyAndDeliveredUnhandled ==
    /\ TimerSticky
    /\ DispatchedKind("Timer") =>
          \A i \in Calls :
              Received(i) <=> (log[i].t = "enter" /\ log[i].bs.request_timer)

\* a Timer event reached a leaf that had requested a timer; no widget
\* requested one during the dispatch and the leaf's flag is still set; a pod
\* that never requested one was entered and received nothing
C26_Witness ==
    /\ DispatchedKind("Timer")
    /\ \A p \in Pods : ~TimerRequested(p)
    /\ \E i \in Entries :
          /\ log[i].pod \in Leaves /\ Received(i)
          /\ state[log[i].pod].request_timer
    /\ \E i \in Entries : ~log[i].bs.request_timer /\ ~Received(i)

----------------------------------------------------------------------------
(* The merge into the calling context *)

\* the flags of BaseState that WidgetPod::event merges upward
MergedFlags ==
    {"needs_inval", "request_anim", "request_timer", "is_hot", "has_active",
     "request_focus"}

\* the returns of the pod event calls that passed the first check
Exits == {x \in LogIdx : log[x].t = "exit"}

\* the entry of the call that returned at x
EntryOf(x) == CHOOSE i \in Recs("enter", log[x].pod) : i < x

\* C27: every pod event call that passes the first check returns through the
\* merge, whether or not it recursed: each merged flag of the caller is its
\* value before OR the child's, is_handled too (so none goes from true to
\* false), and the caller's is_active, has_focus and layout_rect stay.
C27_MergeIsOr ==
    Dispatched =>
        /\ \A i \in Entries : \E x \in Recs("exit", log[i].pod) : x > i
        /\ \A x \in Exits :
              /\ Recs("enter", log[x].pod) # {}
              /\ \A f \in MergedFlags :
                    log[x].merged[f] = (log[x].caller[f] \/ log[x].bs[f])
              /\ log[x].ctx.is_handled =
                    (log[EntryOf(x)].ctx.is_handled \/ log[x].child_ctx.is_handled)
              /\ \A f \in {"is_active", "has_focus", "layout_rect"} :
                    log[x].merged[f] = log[x].caller[f]

\* a pod that did not recurse raised a flag of its caller; another merged
\* into a caller that had a flag the child had not, and the flag stayed
C27_Witness ==
    /\ Dispatched
    /\ \E x \in Exits, f \in MergedFlags :
          ~log[x].recurse /\ ~log[x].caller[f] /\ log[x].merged[f]
    /\ \E x \in Exits, f \in MergedFlags :
          log[x].caller[f] /\ ~log[x].bs[f] /\ log[x].merged[f]

----------------------------------------------------------------------------
(* Claims about the render context's save and restore *)

\* the failure of the step logged at j was logged, right after it
ErrorLogged(j) ==
    /\ j < Len(log)
    /\ log[j + 1].t = "error" /\ log[j + 1].pod = log[j].pod

\* the steps of pod p and of the pods beneath it
SubtreeSteps(p) == {j \in LogIdx : log[j].pod \in {p} \cup Descendants(p)}

\* the step at r is the last of pod p's subtree, but for the log of its
\* own failure
LastOfSubtree(p, r) ==
    \A j \in SubtreeSteps(p) : j <= r \/ (j = r + 1 /\ log[j].t = "error")

\* C28: in paint_with_offset and paint_with_offset_always, a failed save is
\* logged and followed by no transform, no inner paint and no restore; a
\* successful save is followed by one inner paint and then exactly one
\* restore, so saves and restores are balanced; a failed restore is logged;
\* either way the function returns and the pods after it are painted.
C28_SaveRestoreBalanced ==
    Painted =>
        /\ \A i \in PaintCalls :
              LET p == log[i].pod IN
              /\ \A j \in PaintSteps(p, "save") :
                    IF log[j].flag
                    THEN /\ Cardinality(PaintSteps(p, "paint")) = 1
                         /\ Cardinality(PaintSteps(p, "restore")) = 1
                         /\ \A r \in PaintSteps(p, "restore") :
                               /\ \A k \in PaintSteps(p, "paint") : j < k /\ k < r
                               /\ LastOfSubtree(p, r)
                    ELSE /\ ErrorLogged(j)
                         /\ \A t \in {"transform", "paint", "restore"} :
                               PaintSteps(p, t) = {}
              /\ \A r \in PaintSteps(p, "restore") : ~log[r].flag => ErrorLogged(r)
              /\ Cardinality(PaintSteps(p, "restore")) =
                    Cardinality({j \in PaintSteps(p, "save") : log[j].flag})
              /\ Cardinality(PaintSteps(p, "error")) =
                    Cardinality({j \in PaintSteps(p, "save") \cup
                                       PaintSteps(p, "restore") : ~log[j].flag})
        /\ \A q \in Pods :
              PaintSteps(q, "paint") # {} =>
                  \A c \in 1 .. Len(Children(q)) :
                      PaintSteps(Children(q)[c], "call") # {}

\* the save of a container's first child failed and its second child was
\* painted all the same; that child's restore failed and the container's
\* restore followed
C28_Witness ==
    /\ Painted
    /\ \E q \in Pods :
          /\ Len(Children(q)) = 2
          /\ \E j \in PaintSteps(Children(q)[1], "save") : ~log[j].flag
          /\ PaintSteps(Children(q)[2], "paint") # {}
          /\ \E r \in PaintSteps(Children(q)[2], "restore") : ~log[r].flag
          /\ \E r \in PaintSteps(q, "restore") : log[r].flag

\* the rectangle moved by minus the origin of the pod's layout rectangle
InLocalSpace(region, p) ==
    Rect(region.x0 - state[p].layout_rect.x0, region.y0 - state[p].layout_rect.y0,
         region.x1 - state[p].layout_rect.x0, region.y1 - state[p].layout_rect.y0)

\* C29: painting a child leaves the visible region of the parent's paint
\* context as it was: the context has the same region at the pod's restore
\* as at the call, and every child of a container is called with the region
\* the container was painted with; the pod's inner widget is painted with
\* that region moved by minus the origin of the pod's layout rectangle.
C29_ChildRegionScoped ==
    Painted =>
        /\ \A i \in PaintCalls :
              LET p == log[i].pod IN
              /\ \A r \in PaintSteps(p, "restore") : log[r].region = log[i].region
              /\ \A k \in PaintSteps(p, "paint") :
                    log[k].region = InLocalSpace(log[i].region, p)
        /\ \A q \in Pods :
              \A k \in PaintSteps(q, "paint") :
                  \A c \in 1 .. Len(Children(q)) :
                      \A i \in PaintSteps(Children(q)[c], "call") :
                          log[i].region = log[k].region

\* a container painted its first child, away from its origin, in a region
\* other than its own, and then its second child
C29_Witness ==
    /\ Painted
    /\ \E q \in Pods :
          /\ Len(Children(q)) = 2
          /\ \E k \in PaintSteps(q, "paint"), j \in PaintSteps(Children(q)[1], "paint") :
                log[j].region # log[k].region
          /\ PaintSteps(Children(q)[1], "restore") # {}
          /\ PaintSteps(Children(q)[2], "paint") # {}

----------------------------------------------------------------------------
(* Layout *)

\* The widths and heights of a Size are whole numbers.  A coordinate of a
\* Point or of a Rect is a multiple of 1/2 (an Align places its child at
\* half of the space left over) and is held as the number of halves it
\* contains: Rect(3, 1, 7, 5) is the rectangle from (1.5, 0.5) to (3.5, 2.5).
Size(width, height) == [width |-> width, height |-> height]

\* a whole length as a coordinate
Halves(n) == 2 * n

\* f64::INFINITY, the maximum of an unbounded constraint
Infinity == 1000

\* BoxConstraints: the least and the greatest size allowed
BoxConstraints(min, max) == [min |-> min, max |-> max]

\* BoxConstraints::loosen
loosen(bc) == BoxConstraints(Size(0, 0), bc.max)

\* BoxConstraints::is_width_bounded, is_height_bounded
is_width_bounded(bc) == bc.max.width # Infinity

is_height_bounded(bc) == bc.max.height # Infinity

\* BoxConstraints::constrain
constrain(bc, size) ==
    Size(Max(bc.min.width, Min(bc.max.width, size.width)),
         Max(bc.min.height, Min(bc.max.height, size.height)))

\* Rect::from_origin_size
from_origin_size(pt, size) ==
    Rect(pt.x, pt.y, pt.x + Halves(size.width), pt.y + Halves(size.height))

\* UnitPoint::resolve on Rect::new(0., 0., width, height): the point at
\* the fractions u/2 and v/2 of the width and of the height, which is u
\* times the width and v times the height in halves
resolve(align, width, height) == Pt(align.u * width, align.v * height)

\* an Align widget's fields: the unit point (u/2, v/2) and the two factors
\* (Options)
Align(u, v, width_factor, height_factor) ==
    [ u |-> u, v |-> v, width_factor |-> width_factor,
      height_factor |-> height_factor ]

\* Align::centered, Align::right, Align::horizontal(CENTER, ..) and
\* Align::vertical(TOP_LEFT, ..)
Aligns ==
    { Align(1, 1, <<>>, <<>>), Align(2, 1, <<>>, <<>>),
      Align(1, 1, <<>>, <<1>>), Align(0, 0, <<1>>, <<>>) }

\* One record per step of a layout pass:
\*   "set"    set_layout_rect(rect) was called on pod
\*   "inner"  the inner widget's layout returned size
\*   "layout" WidgetPod::layout of pod returned size
LayRec(t, pod, rect, size) == [t |-> t, pod |-> pod, rect |-> rect, size |-> size]

\* A layout pass threads a world Y: the pods' base states Y.st, the
\* rectangles last given to set_layout_rect Y.rect and the log Y.log; a
\* layout call returns the size and the world after it.
LRet(size, Y) == [size |-> size, Y |-> Y]

\* WidgetPod::get_layout_rect
get_layout_rect(bs) == bs.layout_rect

\* a call of WidgetPod::set_layout_rect on pod p
SetLayoutRect(p, rect, Y) ==
    [Y EXCEPT !.st[p] = set_layout_rect(@, rect),
              !.rect[p] = <<rect>>,
              !.log = Append(@, LayRec("set", p, rect, Size(0, 0)))]

\* my_size of Align::layout, from the child's size
AlignSize(bc, a, size) ==
    LET w1 == IF is_width_bounded(bc) THEN bc.max.width ELSE size.width
        h1 == IF is_height_bounded(bc) THEN bc.max.height ELSE size.height
        w2 == IF a.width_factor # <<>> THEN size.width * a.width_factor[1] ELSE w1
        h2 == IF a.height_factor # <<>> THEN size.height * a.height_factor[1] ELSE h1
    IN  constrain(bc, Size(w2, h2))

\* the rectangle Align::layout gives its child
AlignChildRect(my_size, a, size) ==
    LET extra_width == Max(my_size.width - size.width, 0)
        extra_height == Max(my_size.height - size.height, 0)
    IN  from_origin_size(resolve(a, extra_width, extra_height), size)

\* Align::layout after the child's layout returned r
AlignPlaced(p, bc, a, r) ==
    LRet(AlignSize(bc, a, r.size),
         SetLayoutRect(Children(p)[1],
                       AlignChildRect(AlignSize(bc, a, r.size), a, r.size), r.Y))

\* the inner widget's layout returned
InnerReturned(p, r) ==
    LRet(r.size, [r.Y EXCEPT !.log = Append(@, LayRec("inner", p, ZeroRect, r.size))])

\* (mutant) the pod takes the size its widget reports as its own rectangle
PodReturned_SetsOwnRect(p, r) ==
    LRet(r.size,
         [r.Y EXCEPT !.st[p] = set_layout_rect(@, from_origin_size(Pt(0, 0), r.size)),
                     !.log = Append(@, LayRec("layout", p, ZeroRect, r.size))])

\* WidgetPod::layout returns what self.inner.layout returned
PodReturned(p, r) ==
    LRet(r.size, [r.Y EXCEPT !.log = Append(@, LayRec("layout", p, ZeroRect, r.size))])

RECURSIVE PodLayout(_, _, _, _)
RECURSIVE RowLayout(_, _, _, _, _)

\* a container of several children lays them out in a row: each child's
\* layout with the loosened constraints, then its set_layout_rect at the
\* right of the child before; r is the outcome of the child before i and
\* at the size of the row so far
RowPlaced(c, at, r) ==
    LRet(Size(at.width + r.size.width, Max(at.height, r.size.height)),
         SetLayoutRect(c, from_origin_size(Pt(Halves(at.width), 0), r.size), r.Y))

RowLayout(cs, i, bc, in, r) ==
    IF i > Len(cs) THEN LRet(constrain(bc, r.size), r.Y)
    ELSE RowLayout(cs, i + 1, bc, in,
                   RowPlaced(cs[i], r.size, PodLayout(cs[i], loosen(bc), in, r.Y)))

\* Either::layout after the branch's layout returned r: the branch is
\* given the rectangle of that size at the origin
EitherPlaced(c, r) ==
    LRet(r.size, SetLayoutRect(c, from_origin_size(Pt(0, 0), r.size), r.Y))

\* Either::layout
EitherLayout(p, bc, in, Y) ==
    EitherPlaced(Branch(p, widget.current),
                 PodLayout(Branch(p, widget.current), bc, in, Y))

\* self.inner.layout(layout_ctx, bc, data, env); a leaf widget reports its
\* preferred size, constrained
WidgetLayout(p, bc, in, Y) ==
    CASE IsEither(p) -> EitherLayout(p, bc, in, Y)
      [] p \in Leaves -> LRet(constrain(bc, in.size), Y)
      [] Len(Children(p)) = 1 ->
            AlignPlaced(p, bc, in.align,
                        PodLayout(Children(p)[1], loosen(bc), in, Y))
      [] OTHER -> RowLayout(Children(p), 1, bc, in, LRet(Size(0, 0), Y))

\* WidgetPod::layout
PodLayout(p, bc, in, Y) ==
    PodReturned(p, InnerReturned(p, WidgetLayout(p, bc, in, Y)))

\* WidgetPod::boxed: the fields are moved into the new pod
boxed(pod) == [state |-> pod.state, old_data |-> pod.old_data, env |-> pod.env]

\* the constraints of the layout passes and the preferred sizes of the leaves
Constraints ==
    { BoxConstraints(Size(0, 0), Size(8, 4)),
      BoxConstraints(Size(2, 2), Size(6, Infinity)) }

LeafSizes == { Size(1, 1), Size(2, 2), Size(4, 2) }

\* the rectangles given to set_layout_rect from outside a layout pass
SetRects == { Rect(1, 1, 3, 3) }

\* the host runs a layout pass on the root pod, with the constraints bc;
\* the leaves prefer the size `size` and the Align has the parameters a
LayoutWith(bc, size, a) ==
    /\ op.kind = "none"
    /\ LET r == PodLayout(root, bc, [size |-> size, align |-> a],
                          [ st |-> state,
                            rect |-> [p \in Pods |-> hist[p].rect],
                            log |-> <<>> ])
       IN  /\ state' = r.Y.st
           /\ hist' = [p \in Pods |-> [hist[p] EXCEPT !.rect = r.Y.rect[p]]]
           /\ log' = r.Y.log
    /\ op' = [NoOp EXCEPT !.kind = "layout", !.pod = root]
    /\ pre' = Snapshot
    /\ UNCHANGED <<root, old_data, env, app, widget>>

LayoutPass ==
    \E bc \in Constraints, size \in LeafSizes, a \in Aligns :
        LayoutWith(bc, size, a)

\* the owner of a pod gives it a rectangle
SetRect ==
    /\ op.kind = "none"
    /\ \E p \in Tree(root), rect \in SetRects :
          LET Y == SetLayoutRect(p, rect,
                                 [ st |-> state,
                                   rect |-> [q \in Pods |-> hist[q].rect],
                                   log |-> <<>> ])
          IN  /\ state' = Y.st
              /\ hist' = [q \in Pods |-> [hist[q] EXCEPT !.rect = Y.rect[q]]]
              /\ log' = Y.log
              /\ op' = [NoOp EXCEPT !.kind = "set", !.pod = p]
    /\ pre' = Snapshot
    /\ UNCHANGED <<root, old_data, env, app, widget>>

\* a pod of the tree is boxed
Boxed ==
    /\ op.kind = "none"
    /\ \E p \in Tree(root) :
          LET pod == boxed([state |-> state[p], old_data |-> old_data[p],
                            env |-> env[p]])
          IN  /\ state' = [state EXCEPT ![p] = pod.state]
              /\ old_data' = [old_data EXCEPT ![p] = pod.old_data]
              /\ env' = [env EXCEPT ![p] = pod.env]
              /\ op' = [NoOp EXCEPT !.kind = "boxed", !.pod = p]
    /\ log' = <<>>
    /\ pre' = Snapshot
    /\ UNCHANGED <<root, hist, app, widget>>

\* events, updates and paints between the layout passes
LayoutEvents == { Ev("MouseMoved", Pt(1, 1), FALSE), Ev("Size", NoPos, FALSE) }

LayoutDispatch ==
    \E event \in LayoutEvents : Dispatch(event, Reacts({NoReaction}, {NoReaction}))

LayoutUpdate == Update(0, 0)

LayoutPaint ==
    \E mode \in PaintModes : Paint(mode, Rect(0, 0, 4, 2))

\* the pods after construction, before any layout
InitLayout ==
    /\ root \in {1, 2}
    /\ state = [p \in Pods |-> NewPod.state]
    /\ old_data = [p \in Pods |-> NewPod.old_data]
    /\ env = [p \in Pods |-> NewPod.env]
    /\ hist = [p \in Pods |-> [called |-> <<>>, inner |-> <<>>, rect |-> <<>>]]
    /\ op = NoOp
    /\ app = NoApp
    /\ widget = NoWidget
    /\ pre = Snapshot
    /\ log = <<>>

NextLayout ==
    \/ LayoutPass
    \/ SetRect
    \/ Boxed
    \/ LayoutDispatch
    \/ LayoutUpdate
    \/ LayoutPaint
    \/ HostIdle

SpecLayout == InitLayout /\ [][NextLayout]_vars

\* the set_layout_rect calls on pod p in the log
SetCalls(p) == {j \in LogIdx : log[j].t = "set" /\ log[j].pod = p}

\* C30: get_layout_rect returns the rectangle given to the most recent
\* set_layout_rect call, the zero rectangle before any; event, update,
\* paint, paint_with_offset and boxed change no layout rectangle; layout
\* changes none but through the set_layout_rect calls of the widgets, leaves
\* the rectangle of the pod it is called on, and returns the size the inner
\* widget reported.
C30_LayoutRectOnlySet ==
    /\ \A p \in Pods :
          get_layout_rect(state[p]) =
              IF hist[p].rect = <<>> THEN ZeroRect ELSE hist[p].rect[1]
    /\ op.kind \in {"event", "update", "paint", "boxed"} =>
          \A p \in Pods :
              /\ get_layout_rect(state[p]) = get_layout_rect(pre.state[p])
              /\ hist[p].rect = pre.hist[p].rect
    /\ op.kind \in {"layout", "set"} =>
          \A p \in Pods :
              get_layout_rect(state[p]) =
                  IF SetCalls(p) = {} THEN get_layout_rect(pre.state[p])
                  ELSE log[CHOOSE j \in SetCalls(p) :
                              \A k \in SetCalls(p) : k <= j].rect
    /\ op.kind = "layout" =>
          /\ SetCalls(op.pod) = {}
          /\ \A j \in LogIdx :
                log[j].t = "layout" =>
                    /\ j > 1
                    /\ log[j - 1].t = "inner" /\ log[j - 1].pod = log[j].pod
                    /\ log[j].size = log[j - 1].size

\* a layout pass gave the pods beneath the root new rectangles, away from
\* the origin, and left the root with the zero rectangle it was made with
C30_Witness ==
    /\ op.kind = "layout" /\ root = 1
    /\ hist[root].rect = <<>>
    /\ get_layout_rect(state[root]) = ZeroRect
    /\ \A p \in Descendants(root) :
          /\ SetCalls(p) # {}
          /\ get_layout_rect(state[p]) # get_layout_rect(pre.state[p])
    /\ \E p \in Descendants(root) : origin(get_layout_rect(state[p])) # Pt(0, 0)
    /\ \E j \in LogIdx : log[j].t = "layout" /\ log[j].size # Size(0, 0)

----------------------------------------------------------------------------
(* Invalidation: pointer moves and commands through the whole tree *)

InvalEvents ==
    {Ev("MouseMoved", pos, FALSE) : pos \in Points}
        \cup {Ev("Command", NoPos, FALSE)}

\* handlers that invalidate and mark the event handled, in any combination
InvalReactions ==
    {Reaction("keep", h, FALSE, i, FALSE, FALSE) : h \in BOOLEAN, i \in BOOLEAN}

\* handlers of the synthesized HotChanged that invalidate or do nothing
InvalHotReactions ==
    {Reaction("keep", FALSE, FALSE, i, FALSE, FALSE) : i \in BOOLEAN}

InvalDispatch ==
    \E event \in InvalEvents :
        Dispatch(event, Reacts(InvalReactions, InvalHotReactions))

InitInval == InitTree(1)

NextInval == InvalDispatch \/ HostIdle

SpecInval == InitInval /\ [][NextInval]_vars

\* a widget of the pod's subtree called invalidate in the dispatch
Invalidated(p) ==
    \E d \in LogIdx :
        /\ log[d].t = "deliver" /\ log[d].react.inval
        /\ log[d].pod \in {p} \cup Descendants(p)

\* the first call of pod p's inner widget after the entry logged at i
FirstDelivery(p, i) ==
    {d \in Recs("deliver", p) :
        d > i /\ \A e \in Recs("deliver", p) : e > i => d <= e}

\* C35: a pod event call that passes the first check clears the pod's
\* needs_inval before it calls the inner widget; when it returns, and after
\* the dispatch, the pod's needs_inval is set exactly when a widget of its
\* subtree called invalidate in this dispatch, in the handler of a
\* synthesized HotChanged too, whatever it was before; the caller's
\* needs_inval is its value before the merge OR the pod's.
C35_NeedsInvalOfThisDispatch ==
    Dispatched =>
        /\ \A i \in Entries :
              LET p == log[i].pod IN
              /\ \A d \in FirstDelivery(p, i) : ~log[d].bs.needs_inval
              /\ state[p].needs_inval <=> Invalidated(p)
        /\ \A x \in Exits :
              /\ log[x].bs.needs_inval <=> Invalidated(log[x].pod)
              /\ log[x].merged.needs_inval =
                    (log[x].caller.needs_inval \/ log[x].bs.needs_inval)
        /\ op.host.needs_inval <=> Invalidated(root)

\* a pod left invalidated by an earlier dispatch was entered and nobody
\* beneath it invalidated: it is clean; another pod's widget invalidated
\* while handling a synthesized HotChanged and not otherwise; and a caller
\* already invalidated by one child stayed so when a clean child merged
C35_Witness ==
    /\ Dispatched
    /\ \E i \in Entries :
          /\ pre.state[log[i].pod].needs_inval
          /\ log[i].bs.needs_inval
          /\ ~state[log[i].pod].needs_inval
    /\ \E p \in Pods :
          /\ \E d \in Deliveries(p, "HotChanged") : log[d].react.inval
          /\ \A d \in Recs("deliver", p) :
                log[d].ev.kind # "HotChanged" => ~log[d].react.inval
          /\ state[p].needs_inval
    /\ \E x \in Exits :
          log[x].caller.needs_inval /\ ~log[x].bs.needs_inval

----------------------------------------------------------------------------
(* Requests: animation frames, focus and timers through the whole tree *)

RequestEvents ==
    {Ev(k, NoPos, FALSE) : k \in {"Command", "AnimFrame", "Timer"}}
        \cup {FocusChanged(TRUE)}

\* handlers that make at most one request (focus, an animation frame or a
\* timer) and mark the event handled or not
RequestReactions ==
    {Reaction("keep", h, r = "focus", FALSE, r = "anim", r = "timer") :
        h \in BOOLEAN, r \in {"none", "focus", "anim", "timer"}}

RequestDispatch ==
    \E event \in RequestEvents :
        Dispatch(event, Reacts(RequestReactions, {NoReaction}))

InitRequests == InitTree(1)

NextRequests == RequestDispatch \/ HostIdle

SpecRequests == InitRequests /\ [][NextRequests]_vars

\* the request flags of BaseState
RequestFlags == {"request_anim", "request_focus", "request_timer"}

\* every ancestor of a pod that has the flag set has it set too
Reachable(f) ==
    \A p \in Pods : state[p][f] => \A a \in Ancestors(p) : state[a][f]

\* C36: after every completed dispatch, a pod with request_anim,
\* request_focus or request_timer set has every ancestor pod with the same
\* flag set, so that the next AnimFrame, FocusChanged or Timer dispatched
\* into the root is forwarded down to it.
C36_RequestsReachable ==
    Dispatched => \A f \in RequestFlags : Reachable(f)

----------------------------------------------------------------------------
(* Updates of a tree whose root widget is wrapped in a LensWrap *)

\* the application data: a struct of two integers
TreeData ==
    {TupV(<<IntV(a), IntV(b)>>) : a \in 0 .. 1, b \in 0 .. MaxData}

\* the lens of the LensWrap: the first field, or half of the second
TreeLenses == {FieldOf(0), Then(FieldOf(1), Map("half"))}

LensedUpdate == \E data \in TreeData, e \in EnvValues : Update(data, e)

InitLensed ==
    /\ root \in {1, 2}
    /\ \E layout \in Layouts :
          state = [p \in Pods |-> set_layout_rect(NewPod.state, layout[p])]
    /\ old_data = [p \in Pods |-> NewPod.old_data]
    /\ env = [p \in Pods |-> NewPod.env]
    /\ hist = [p \in Pods |-> [called |-> <<>>, inner |-> <<>>,
                               rect |-> <<state[p].layout_rect>>]]
    /\ op = NoOp
    /\ \E l \in TreeLenses : app = [NoApp EXCEPT !.parts = <<l>>]
    /\ widget = NoWidget
    /\ pre = Snapshot
    /\ log = <<>>

NextLensed == LensedUpdate \/ HostIdle

SpecLensed == InitLensed /\ [][NextLensed]_vars

\* an update of a tree whose root widget is a LensWrap has completed
LensedUpdated == op.kind = "update" /\ app.parts # <<>>

\* the calls of LensWrap::update in it
LensWrapCalls == {i \in LogIdx : log[i].t = "inner" /\ log[i].pod = root}

\* the projection of a value of the outer data through the LensWrap's lens
Projected(v) == with(app.parts[1], v, FRef, Machine(<<>>)).ret[1]

\* the LensWrap::update logged at i called the update of the widget inside
ReachedInner(i) ==
    i < Len(log) /\ log[i + 1].t = "lensed" /\ log[i + 1].pod = root

\* what LensWrap::update decides from: old_data is None, or the projections
\* of old_data and data are not `same`
ProjectionChanged(i) ==
    \/ log[i].old = <<>>
    \/ ~same(Projected(log[i].old[1]), Projected(log[i].data))

\* C34: LensWrap::update calls the update of the widget inside exactly when
\* old_data is None or the projections of old_data and data through the
\* lens are not `same`, whatever the env, and hands it the env it was given;
\* when it does not call it, as in an update in which the env alone changed,
\* no pod beneath is updated and each keeps the data and env snapshots it
\* had.
C34_LensWrapDecidesOnData ==
    LensedUpdated =>
        \A i \in LensWrapCalls :
            /\ ReachedInner(i) <=> ProjectionChanged(i)
            /\ ReachedInner(i) =>
                  /\ log[i + 1].data = Projected(log[i].data)
                  /\ log[i + 1].env = log[i].env
                  /\ log[i + 1].old =
                        IF log[i].old = <<>> THEN <<>>
                        ELSE <<Projected(log[i].old[1])>>
            /\ ~ReachedInner(i) =>
                  \A q \in Descendants(root) :
                      /\ Recs("update", q) = {}
                      /\ env[q] = pre.env[q]
                      /\ old_data[q] = pre.old_data[q]
                      /\ hist[q] = pre.hist[q]

\* an update with the data of the update before and another env: the root
\* pod took the new env, LensWrap::update did not call the widget inside,
\* and the pods beneath still hold the earlier env
C34_Witness ==
    /\ LensedUpdated
    /\ \E i \in LensWrapCalls :
          /\ log[i].old = <<log[i].data>>
          /\ pre.env[root] # <<>> /\ pre.env[root] # <<log[i].env>>
          /\ ~ReachedInner(i)
    /\ env[root] = <<op.env>>
    /\ Descendants(root) # {}
    /\ \A q \in Descendants(root) : env[q] = pre.env[root]

----------------------------------------------------------------------------
(* Either at the root: events, updates, layout passes and paints *)

\* handlers that do nothing, invalidate, or request a timer
EitherReactions ==
    { NoReaction,
      Reaction("keep", FALSE, FALSE, TRUE, FALSE, FALSE),
      Reaction("keep", FALSE, FALSE, FALSE, FALSE, TRUE) }

EitherDispatch ==
    Dispatch(Ev("Command", NoPos, FALSE), Reacts(EitherReactions, {NoReaction}))

EitherUpdated == \E data \in DataValues, e \in EnvValues : Update(data, e)

EitherLaidOut ==
    \E size \in LeafSizes :
        LayoutWith(BoxConstraints(Size(0, 0), Size(8, 4)), size,
                   Align(1, 1, <<>>, <<>>))

EitherPainted == \E mode \in PaintModes : Paint(mode, Rect(0, 0, 4, 2))

\* Either::new over the freshly built pods 2 (Align over a leaf) and 3 (a
\* leaf), in the fresh root pod
InitEither ==
    /\ root = 1
    /\ state = [p \in Pods |-> NewPod.state]
    /\ old_data = [p \in Pods |-> NewPod.old_data]
    /\ env = [p \in Pods |-> NewPod.env]
    /\ hist = [p \in Pods |-> [called |-> <<>>, inner |-> <<>>, rect |-> <<>>]]
    /\ op = NoOp
    /\ app = NoApp
    /\ \E c \in {"gt", "always"} : widget = EitherNew(c)
    /\ pre = Snapshot
    /\ log = <<>>

NextEither ==
    \/ EitherDispatch
    \/ EitherUpdated
    \/ EitherLaidOut
    \/ EitherPainted
    \/ HostIdle

SpecEither == InitEither /\ [][NextEither]_vars

\* an operation on a tree whose root widget is an Either has completed
EitherDone ==
    widget.kind = "either" /\ op.kind \in {"event", "update", "layout", "paint"}

\* the pod of the branch `current` selects (true_branch when true,
\* false_branch otherwise), and the pods of the other branch
Selected ==
    IF widget.current THEN true_branch(root) ELSE false_branch(root)

NotSelected ==
    LET other == IF widget.current THEN false_branch(root)
                 ELSE true_branch(root)
    IN  {other} \cup Descendants(other)

\* pod q got no call in the operation and is as it was before it
Untouched31(q) ==
    /\ \A i \in LogIdx : log[i].pod # q
    /\ state[q] = pre.state[q]
    /\ old_data[q] = pre.old_data[q]
    /\ env[q] = pre.env[q]
    /\ hist[q] = pre.hist[q]

\* every call of the Either's event, update, layout and paint went on to
\* the selected branch's pod
ForwardedToSelected ==
    /\ op.kind = "event" =>
          \A i \in Recs("deliver", root) :
              log[i + 1].pod = Selected /\ log[i + 1].t \in {"enter", "skip"}
    /\ op.kind = "update" =>
          \A i \in Recs("inner", root) :
              \E j \in Recs("update", Selected) :
                  /\ j > i
                  /\ log[j].data = op.data /\ log[j].env = op.env
    /\ op.kind = "layout" =>
          \E i \in Recs("layout", Selected), j \in Recs("set", Selected) :
              /\ i < j
              /\ log[j].rect = from_origin_size(Pt(0, 0), log[i].size)
              /\ \A k \in Recs("layout", root) : log[k].size = log[i].size
    /\ op.kind = "paint" =>
          \A i \in Recs("paint", root) :
              log[i + 1].pod = Selected /\ log[i + 1].t = "paint"

\* C31: after every update, current is the closure's value on the data and
\* the env of the call, and the update context was invalidated by the
\* Either exactly when current changed; event, update, layout and paint go
\* to the pod of the branch current selects, and the pods of the other
\* branch get no call and keep their state and snapshots; until the first
\* update current is false and the false branch is the selected one,
\* whatever the closure would return.
C31_EitherForwardsToCurrent ==
    /\ (widget.kind = "either" /\ op.kind = "update") =>
          /\ widget.current = closure(widget.closure, op.data, op.env)
          /\ op.needs_inval <=> (widget.current # pre.widget.current)
          /\ (Recs("invalidate", root) # {})
                <=> (widget.current # pre.widget.current)
    /\ EitherDone =>
          /\ \A q \in NotSelected : Untouched31(q)
          /\ ForwardedToSelected
    /\ (widget.kind = "either" /\ hist[root].inner = <<>>) =>
          /\ ~widget.current
          /\ Selected = false_branch(root)

\* an update turned current from true to false: the Either invalidated and
\* updated the false branch; the true branch, updated before with another
\* data, was left alone
C31_Witness ==
    /\ widget.kind = "either" /\ op.kind = "update"
    /\ pre.widget.current /\ ~widget.current
    /\ op.needs_inval
    /\ Recs("update", false_branch(root)) # {}
    /\ old_data[true_branch(root)] # <<>>
    /\ old_data[true_branch(root)] # <<op.data>>
    /\ old_data[false_branch(root)] = <<op.data>>

----------------------------------------------------------------------------
(* Parse<W> as a Widget<Option<i32>> over a stub Widget<String> *)

\* texts have at most MaxText characters
MaxText == 2

\* a String is the sequence of its characters
Chars == {"0", "1", "-", "+", "a"}

RECURSIVE TextsOf(_)
TextsOf(n) ==
    IF n = 0 THEN {<<>>}
    ELSE TextsOf(n - 1)
            \cup {Append(s, c) : s \in {t \in TextsOf(n - 1) : Len(t) = n - 1},
                                 c \in Chars}

Texts == TextsOf(MaxText)

DigitChars == <<"0", "1", "2", "3", "4", "5", "6", "7", "8", "9">>

IsDigit(c) == \E d \in 1 .. 10 : DigitChars[d] = c

DigitValue(c) == (CHOOSE d \in 1 .. 10 : DigitChars[d] = c) - 1

\* x.to_string() of an i32: the decimal digits, after a '-' when negative
RECURSIVE to_string(_)
to_string(x) ==
    IF x < 0 THEN <<"-">> \o to_string(-x)
    ELSE IF x < 10 THEN <<DigitChars[x + 1]>>
    ELSE Append(to_string(x \div 10), DigitChars[(x % 10) + 1])

\* the number the decimal digits of s write, after acc
RECURSIVE DigitsValue(_, _)
DigitsValue(s, acc) ==
    IF s = <<>> THEN acc
    ELSE DigitsValue(Tail(s), acc * 10 + DigitValue(Head(s)))

\* a Result: Ok(val) or Err
Result(is_ok, val) == [ok |-> is_ok, val |-> val]

\* str::parse::<i32>: an optional '+' or '-', then one decimal digit or
\* more and nothing else (texts of this length cannot overflow)
parse(s) ==
    LET body == IF s # <<>> /\ Head(s) \in {"+", "-"} THEN Tail(s) ELSE s
    IN  IF body = <<>> \/ \E i \in 1 .. Len(body) : ~IsDigit(body[i])
        THEN Result(FALSE, 0)
        ELSE Result(TRUE, IF Head(s) = "-" THEN 0 - DigitsValue(body, 0)
                          ELSE DigitsValue(body, 0))

\* Result::ok
ResultOk(r) == IF r.ok THEN <<r.val>> ELSE <<>>

\* Parse::new(widget): the stored text is String::new()
ParseNew == [NoWidget EXCEPT !.kind = "parse", !.state = <<>>]

\* One record per call in an operation on the Parse:
\*   "update"        Parse::update with old (Option<&Option<i32>>) and data
\*   "inner_update"  the wrapped widget's update with old (Option<&String>)
\*                   and data (the stored text)
\*   "event"         Parse::event with the outer data in `old`, left as
\*                   `data` at the return
\*   "inner_event"   the wrapped widget's event, which found the text `old`
\*                   and left the text `data`
ParseRec(t, old, data) == [t |-> t, pod |-> root, old |-> old, data |-> data]

\* the outcome of a call on the Parse: its stored text, the outer data and
\* the log
ParseRet(text, data, L) == [state |-> text, data |-> data, L |-> L]

\* (mutant) the text is replaced before it is looked at
ParseUpdate_Clobbers(text, old_arg, data, L) ==
    LET new == IF data = <<>> THEN <<>> ELSE to_string(data[1])
    IN  ParseRet(new, data,
                 L \o << ParseRec("update", old_arg, data),
                         ParseRec("inner_update",
                                  IF old_arg # <<>> THEN <<text>> ELSE <<>>,
                                  new) >>)

\* Parse::update, on a Parse whose stored text is `text`
ParseUpdate(text, old_arg, data, L) ==
    IF data = <<>>
    THEN ParseRet(text, data, Append(L, ParseRec("update", old_arg, data)))
    ELSE LET prev == text
             new == to_string(data[1])
         IN  ParseRet(new, data,
                      L \o << ParseRec("update", old_arg, data),
                              ParseRec("inner_update",
                                       IF old_arg # <<>> THEN <<prev>> ELSE <<>>,
                                       new) >>)

\* Parse::event; the wrapped widget's handler leaves the text `edit`
ParseEvent(text, data, edit, L) ==
    ParseRet(edit, ResultOk(parse(edit)),
             L \o << ParseRec("inner_event", text, edit),
                     ParseRec("event", data, ResultOk(parse(edit))) >>)

\* the values of the outer data: None, or Some of an integer
ParseData == {<<>>} \cup {<<x>> : x \in {-1, 0, 1, 7, 10}}

\* the owner of the Parse calls its update
ParseUpdated ==
    /\ op.kind = "none"
    /\ widget.kind = "parse"
    /\ \E old \in {<<>>} \cup {<<d>> : d \in ParseData}, data \in ParseData :
          LET r == ParseUpdate(widget.state, old, data, <<>>)
          IN  /\ Len(r.state) <= MaxText
              /\ widget' = [widget EXCEPT !.state = r.state]
              /\ log' = r.L
    /\ op' = [NoOp EXCEPT !.kind = "parse_update", !.pod = root]
    /\ pre' = Snapshot
    /\ UNCHANGED <<root, state, old_data, env, hist, app>>

\* the owner of the Parse calls its event with some outer data; the wrapped
\* widget edits the text or leaves it
ParseEvented ==
    /\ op.kind = "none"
    /\ widget.kind = "parse"
    /\ \E data \in ParseData, edit \in Texts :
          LET r == ParseEvent(widget.state, data, edit, <<>>)
          IN  /\ widget' = [widget EXCEPT !.state = r.state]
              /\ log' = r.L
    /\ op' = [NoOp EXCEPT !.kind = "parse_event", !.pod = root]
    /\ pre' = Snapshot
    /\ UNCHANGED <<root, state, old_data, env, hist, app>>

InitParse ==
    /\ root = 3
    /\ state = [p \in Pods |-> NewPod.state]
    /\ old_data = [p \in Pods |-> NewPod.old_data]
    /\ env = [p \in Pods |-> NewPod.env]
    /\ hist = [p \in Pods |-> [called |-> <<>>, inner |-> <<>>, rect |-> <<>>]]
    /\ op = NoOp
    /\ app = NoApp
    /\ widget = ParseNew
    /\ pre = Snapshot
    /\ log = <<>>

NextParse == ParseUpdated \/ ParseEvented \/ HostIdle

SpecParse == InitParse /\ [][NextParse]_vars

\* the calls of a kind in the log
ParseCalls(t) == {i \in LogIdx : log[i].t = t}

\* the text is a decimal integer literal: digits after an optional sign
IsLiteral(s) ==
    \E sign \in {<<>>, <<"+">>, <<"-">>}, digits \in Texts \ {<<>>} :
        /\ s = sign \o digits
        /\ \A i \in 1 .. Len(digits) : digits[i] \in {"0", "1"}

\* C32: an update with data None leaves the stored text and does not call
\* the wrapped widget's update; an update with data Some(x) stores the
\* string form of x (which parses back to x) and calls the wrapped widget's
\* update once, with the text and with the previous text as old data
\* exactly when old_data is Some; after an event the outer data is the
\* parse of the stored text, None when it does not parse, whatever the
\* outer data was before.
C32_ParseKeepsTextAndData ==
    /\ op.kind = "parse_update" =>
          \A i \in ParseCalls("update") :
              IF log[i].data = <<>>
              THEN /\ widget.state = pre.widget.state
                   /\ ParseCalls("inner_update") = {}
              ELSE /\ widget.state = to_string(log[i].data[1])
                   /\ ResultOk(parse(widget.state)) = log[i].data
                   /\ Cardinality(ParseCalls("inner_update")) = 1
                   /\ \A j \in ParseCalls("inner_update") :
                         /\ log[j].data = widget.state
                         /\ log[j].old =
                               IF log[i].old # <<>> THEN <<pre.widget.state>>
                               ELSE <<>>
    /\ op.kind = "parse_event" =>
          \A i \in ParseCalls("event") :
              /\ log[i].data = ResultOk(parse(widget.state))
              /\ (log[i].data # <<>>) <=> IsLiteral(widget.state)
              /\ log[i].data # <<>> =>
                    parse(to_string(log[i].data[1])) = parse(widget.state)

\* an event in which the text was edited to something that is no number
\* turned an outer data of Some into None
C32_Witness ==
    /\ op.kind = "parse_event"
    /\ \E i \in ParseCalls("event") : log[i].old # <<>> /\ log[i].data = <<>>
    /\ widget.state # <<>>
    /\ pre.widget.state # widget.state
    /\ parse(pre.widget.state).ok

====
